---- MODULE Spec2Model ----
(***************************************************************************)
(* MONIK: the router client (backend/internal/service/mikrotik.go) and the *)
(* collector with its store writes (backend/internal/service/service.go,   *)
(* the later of the file's two MonitoringService definitions, lines        *)
(* 211-651, which is the one that has the offline path and the monthly     *)
(* quota updater).                                                         *)
(*                                                                         *)
(* Two specifications share the module.  SpecRouter runs concurrent        *)
(* callers against one MikroTikService.  SpecMon runs the monitoring loop  *)
(* against the store; there the router's answers (the interface list, the  *)
(* traffic rates, or an error) are inputs, and the store's calls succeed.  *)
(***************************************************************************)
EXTENDS Naturals, Integers, Sequences, FiniteSets, TLC

VARIABLES
    \* ---- MikroTikService (mikrotik.go:17-21) and its callers
    mu,          \* s.mu: the caller whose Lock() returned last and who has not unlocked
    client,      \* s.client: "nil" or "session"
    rpc,         \* each caller's position inside its call
    rop,         \* the operation each caller is running
    rcmd,        \* number of commands the call has completed (GetSystemInfo runs 4)
    rres,        \* what each caller's last call returned: "none", "ok", "err"
    \* ---- MonitoringService, dbMutex and the store (service.go:229-579)
    dbMutex,     \* the frame that holds dbMutex between two steps: "free" or "save"
    pc,          \* position of the monitoringLoop goroutine
    path,        \* the path the current tick took: "none", "online", "offline"
    attempt,     \* collectData: GetInterfaces calls made by the retry loop (its loop variable)
    lastErr,     \* collectData: err of the last GetInterfaces call
    interfaces,  \* collectData: the interfaces GetInterfaces returned, by name, in order
    iface,       \* the loop variable of lines 340-351: the sample in hand, rates merged in
    idx,         \* index of the sample (online) or known row (offline) in hand
    isReset,     \* saveInterfaceData: the isReset local
    saveNow,     \* saveInterfaceData: now, taken before the quota call (line 408)
    known,       \* RecordOfflineStatus: knownInterfaces, as loaded
    offNow,      \* RecordOfflineStatus: now, taken once before the loop
    clock,       \* time.Now(), at day granularity
    onlineTicks, \* ticks so far whose GetInterfaces returned an interface (bounded)
    ifaceRows,   \* table interfaces: name -> row or NoRow
    resetLogs,   \* table counter_reset_logs, in insertion order
    snapshots,   \* table traffic_snapshots, in insertion order
    quotas,      \* table monthly_quota: <<name, day>> -> row or NoRow
    \* ---- history (not program state)
    offlineRuns, \* RecordOfflineStatus calls in the current tick
    quotaCalls,  \* the updateMonthlyQuota calls made in the current tick, in order
    \* ---- goroutines contending for dbMutex (service.go:229, 357, 487)
    wpc,         \* each goroutine's position in saveInterfaceData / updateMonthlyQuota
    wcall,       \* the call it is running: path, sample, isReset
    wrow,        \* updateMonthlyQuota: the quota row as loaded by First (line 499)
    wcalls,      \* calls started so far (bounded)
    \* ---- WebSocketManager (websocket package: unnamed/part_004:14-32)
    hubMu,       \* wm.mu: "free", "hub" (read-locked by run), or the client whose
                 \* readPump holds the write lock
    clients,     \* wm.clients: the registered clients
    subs,        \* wm.subscriptions: interface -> set of clients (keys: its DOMAIN)
    ingress,     \* wm.broadcast: the messages waiting for run
    sendq,       \* client.Send of each client
    hpc,         \* position of the run goroutine
    hmsg,        \* the message run took from wm.broadcast
    hrest,       \* handleBroadcast: the clients its loop has not visited yet
    cpc,         \* position of each client's HandleConnection / readPump
    creq,        \* the control message readPump is handling
    metrics,     \* wm.metrics: the counters of WebSocketMetrics
    \* ---- history (not program state)
    bcasts,      \* BroadcastData / BroadcastEvent calls so far (message ids)
    ctls,        \* control messages read so far
    unsubAcked,  \* per client: interfaces whose unsubscribe was acknowledged and
                 \* that were not subscribed again since
    \* ---- WorkerPool and CircuitBreaker (logging.go:346-429)
    cb,          \* wp.circuitBreaker: state, failureCount, successCount, and
                 \* since = time.Since(cb.lastFailure)
    jobQueue,    \* wp.jobQueue: the jobs waiting for the dispatcher
    poolMetrics, \* wp.metrics: TotalJobs, SuccessJobs, FailedJobs
    running,     \* jobs handed to a worker whose processJob has not run yet
    \* ---- history (not program state)
    submits,     \* SubmitJob calls made from outside the pool so far
    execs,       \* processJob calls so far
    hist,        \* what the breaker has seen: see NoHistory
    \* ---- dispatcher and workers (logging.go:718-772)
    dpc,         \* position of the dispatch goroutine
    djob,        \* the job dispatch has taken off wp.jobQueue
    dworker,     \* the worker SelectWorker returned for it
    lastUsed,    \* wp.loadBalancer.lastUsed, modulo the number of workers
    wkq,         \* worker.JobQueue of each worker (capacity 1): a job or NoJob
    wkpc,        \* position of each worker's startWorker loop
    registered,  \* number of entries in the channel wp.workerPool
    \* ---- WANDetectionService (database.go:116-139)
    wanConfig,   \* s.config.DetectionMethod, or NoConfig before the service is built
    wanClient,   \* s.client: "nil" or "session"
    wanCache,    \* s.cache: Interface (a decision or NoDecision) and the age of
                 \* LastUpdated, in minutes
    wanMetrics,  \* s.metrics: CacheHits, TotalDetections, Failures
    \* ---- history (not program state)
    wanOut,      \* what the last DetectWANInterface call returned, sent and saw
    wanCalls,    \* DetectWANInterface calls so far (bounded)
    \* ---- MetricsService (metrics.go:10-37)
    msWan,       \* ms.systemMetrics.WANDetectionMetrics: the object held, with its
                 \* Failures and CacheHits
    msPool,      \* ms.systemMetrics.WorkerPoolMetrics: the object held, with its
                 \* FailedJobs and TotalJobs
    health,      \* ms.systemMetrics.SystemHealth: Status and ErrorRate
    \* ---- history (not program state)
    healthRead,  \* totalErrors and totalRequests of the last updateSystemHealth
    \* ---- WorkerPool, its counters step by step (logging.go:676-840)
    lbStrategy,  \* wp.loadBalancer.strategy, or NoStrategy before the balancer is built
    cQueue,      \* number of jobs on wp.jobQueue
    cSub,        \* position of the SubmitJob call in progress
    cDpc,        \* position of the dispatch goroutine
    cWorker,     \* the worker SelectWorker returned
    cLast,       \* wp.loadBalancer.lastUsed, modulo the number of workers
    cWq,         \* number of jobs on each worker's JobQueue (0 or 1)
    cWpc,        \* position of each worker's startWorker loop
    cReg,        \* number of entries in the channel wp.workerPool
    wActive,     \* worker.ActiveJobs of each worker
    cMetrics,    \* wp.metrics: ActiveJobs, TotalJobs, SuccessJobs, FailedJobs
    \* ---- history (not program state)
    cHanded,     \* per worker: jobs sent to its JobQueue whose processJob has
                 \* not returned
    cJobs        \* SubmitJob calls so far (bounded)

routerVars == <<mu, client, rpc, rop, rcmd, rres>>
monVars == <<dbMutex, pc, path, attempt, lastErr, interfaces, iface, idx, isReset,
             saveNow, known, offNow, clock, onlineTicks, ifaceRows, resetLogs, snapshots, quotas,
             offlineRuns, quotaCalls>>
writerVars == <<wpc, wcall, wrow, wcalls>>
hubVars == <<hubMu, clients, subs, ingress, sendq, hpc, hmsg, hrest, cpc, creq,
             metrics, bcasts, ctls, unsubAcked>>
plumbVars == <<dpc, djob, dworker, lastUsed, wkq, wkpc, registered>>
poolVars == <<cb, jobQueue, poolMetrics, running, submits, execs, hist, plumbVars>>
wanVars == <<wanConfig, wanClient, wanCache, wanMetrics, wanOut, wanCalls>>
healthVars == <<msWan, msPool, health, healthRead>>
countVars == <<lbStrategy, cQueue, cSub, cDpc, cWorker, cLast, cWq, cWpc, cReg, wActive,
               cMetrics, cHanded, cJobs>>
vars == <<routerVars, monVars, writerVars, hubVars, poolVars, wanVars, healthVars, countVars>>
\* What a step of the router client, and a step of the collector, leaves alone.
routerOthers == <<monVars, writerVars, hubVars, poolVars, wanVars, healthVars, countVars>>
monOthers == <<routerVars, writerVars, hubVars, poolVars, wanVars, healthVars, countVars>>
writerOthers == <<routerVars, hubVars, poolVars, wanVars, healthVars, countVars>>

(***************************************************************************)
(* Bounds                                                                  *)
(***************************************************************************)
\* Counters run over 0..MaxCounter.
MaxCounter == 1
\* Calls of saveInterfaceData and updateMonthlyQuota the contending goroutines
\* start, over a whole run.
MaxWriterCalls == 3
\* BroadcastData and BroadcastEvent calls, over a whole run.
MaxBroadcasts == 2
\* Control messages the clients send, over a whole run.
MaxControls == 2
\* Capacity of wm.broadcast (10000 in NewWebSocketManager) and of a client's
\* Send channel (1024 in HandleConnection), scaled down.
IngressCap == 1
SendCap == 2
\* SubmitJob calls from outside the pool, and processJob calls, over a whole run.
MaxSubmits == 3
MaxExecs == 8
\* Capacity of wp.jobQueue (config.QueueSize, 100 by default), scaled down.
QueueCap == 2
\* config.MaxWorkers (4 by default), scaled down.
MaxWorkers == 2
\* Ticks, over a whole run, in which the router answers with at least one interface.
MaxOnlineTicks == 2

(***************************************************************************)
(* Router client                                                           *)
(***************************************************************************)
Callers == {"collector", "probe", "worker"}
NoCaller == "nobody"

\* The operations that run commands on the session; each takes s.mu and then
\* calls connect.
SessionOps == {"GetInterfaces", "GetSystemInfo", "GetTrafficStats", "GetLastRebootLog"}
\* GetClient and Close (disconnect) take s.mu and do not call connect.
PlainOps == {"GetClient", "Close"}
AllOps == SessionOps \cup PlainOps

\* Commands one call of op runs.
Commands(op) == IF op = "GetSystemInfo" THEN 4 ELSE 1

RouterInit ==
    /\ mu = NoCaller
    /\ client = "nil"
    /\ rpc = [c \in Callers |-> "idle"]
    /\ rop = [c \in Callers |-> "none"]
    /\ rcmd = [c \in Callers |-> 0]
    /\ rres = [c \in Callers |-> "none"]

\* A lock that lets every caller in (the variant without mutual exclusion).
MuFreeNoExclusion(c) == TRUE

\* sync.Mutex.Lock returns only while nobody holds the mutex; it is not
\* reentrant, so this is false also for the holder itself.
MuFree(c) == mu = NoCaller

\* A caller enters one of the operations and reaches its s.mu.Lock().
Call(c, op) ==
    /\ rpc[c] = "idle"
    /\ rpc' = [rpc EXCEPT ![c] = "lock"]
    /\ rop' = [rop EXCEPT ![c] = op]
    /\ rcmd' = [rcmd EXCEPT ![c] = 0]
    /\ rres' = [rres EXCEPT ![c] = "none"]
    /\ UNCHANGED <<mu, client, routerOthers>>

\* s.mu.Lock() returns: at the entry of an operation ("lock"), or at the
\* entry of connect ("connectLock"), which the session operations call with
\* the mutex already held.
Lock(c) ==
    /\ rpc[c] \in {"lock", "connectLock"}
    /\ MuFree(c)
    /\ mu' = c
    /\ rpc' = [rpc EXCEPT ![c] =
                 IF rpc[c] = "connectLock" THEN "dial"
                 ELSE IF rop[c] \in SessionOps THEN "connectLock"
                 ELSE "body"]
    /\ UNCHANGED <<client, rop, rcmd, rres, routerOthers>>

\* The deferred s.mu.Unlock() of a returning operation; unlocking a mutex
\* nobody holds is a fatal runtime error.
Return(c, res) ==
    /\ mu' = NoCaller
    /\ rpc' = [rpc EXCEPT ![c] = IF mu = NoCaller THEN "fatal" ELSE "idle"]
    /\ rres' = [rres EXCEPT ![c] = res]

\* Everything a call does between two Lock() calls.  "body" is GetClient or
\* disconnect.  The arms "dial", "send" and "await" are connect's body and
\* the command exchange: they follow connect's Lock().
Step(c) ==
    /\ rpc[c] \in {"body", "dial", "send", "await"}
    /\ CASE rpc[c] = "body" ->
              /\ client' = IF rop[c] = "Close" THEN "nil" ELSE client
              /\ Return(c, "ok")
              /\ UNCHANGED rcmd
         [] rpc[c] = "dial" ->
              \* connect: reuse the session, or dial with a 5 s timeout; its
              \* deferred Unlock releases s.mu when it returns
              \E dialOk \in BOOLEAN :
                 IF client # "nil" \/ dialOk
                 THEN /\ client' = "session"
                      /\ mu' = NoCaller
                      /\ rpc' = [rpc EXCEPT ![c] = "send"]
                      /\ UNCHANGED <<rcmd, rres>>
                 ELSE /\ client' = client
                      /\ mu' = NoCaller
                      /\ rpc' = [rpc EXCEPT ![c] = "fatal"]
                      /\ rres' = [rres EXCEPT ![c] = "err"]
                      /\ UNCHANGED rcmd
         [] rpc[c] = "send" ->
              \* s.client.RunContext(cmdCtx, ...): the command goes out
              /\ rpc' = [rpc EXCEPT ![c] = "await"]
              /\ UNCHANGED <<mu, client, rcmd, rres>>
         [] rpc[c] = "await" ->
              \* the reply, or a transport error or deadline
              \E replyOk \in BOOLEAN :
                 IF rop[c] = "GetSystemInfo"
                 THEN \* an error is logged and the next command is run
                      /\ rcmd' = [rcmd EXCEPT ![c] = @ + 1]
                      /\ client' = client
                      /\ IF rcmd[c] + 1 < Commands(rop[c])
                         THEN /\ rpc' = [rpc EXCEPT ![c] = "send"]
                              /\ UNCHANGED <<mu, rres>>
                         ELSE Return(c, "ok")
                 ELSE /\ rcmd' = [rcmd EXCEPT ![c] = @ + 1]
                      /\ client' = IF replyOk THEN client ELSE "nil"
                      /\ Return(c, IF replyOk THEN "ok" ELSE "err")
    /\ UNCHANGED <<rop, routerOthers>>

RouterNext ==
    \/ \E c \in Callers, op \in AllOps : Call(c, op)
    \/ \E c \in Callers : Lock(c)
    \/ \E c \in Callers : Step(c)

\* Callers inside an operation, past its Lock().
InOperation == {c \in Callers : rpc[c] \in {"connectLock", "dial", "send", "await", "body"}}
\* Callers whose command is out and not answered.
InFlight == {c \in Callers : rpc[c] = "await"}

\* C1: across all concurrent callers of GetInterfaces, GetTrafficStats,
\* GetSystemInfo and GetLastRebootLog at most one command is in flight on the
\* session: no caller sends (or is about to send) a command while another
\* caller is between its Lock() and its return.
C1_OneCommandInFlight ==
    /\ Cardinality(InFlight) <= 1
    /\ \A c, d \in Callers :
          (c # d /\ rop[c] \in SessionOps /\ rop[d] \in SessionOps)
             => ~(c \in InOperation /\ d \in InOperation)

\* Two callers are in session operations at once: one is past its Lock(), the
\* other waits at its own.
C1_Witness ==
    \E c, d \in Callers :
       /\ c # d
       /\ rop[c] \in SessionOps /\ c \in InOperation /\ mu = c
       /\ rop[d] \in SessionOps /\ rpc[d] = "lock"

\* C14: a call that holds the session mutex and has no live session performs
\* a new connect before it sends its command (so that after a failed command,
\* which clears the session handle, the next call reconnects); connect's body
\* runs only in a call that holds the mutex, and a call that returned an error
\* from a command leaves the handle cleared.
C14_NextCallReconnects ==
    \A c \in Callers :
       /\ rpc[c] = "dial" => mu = c
       /\ (rpc[c] = "idle" /\ rres[c] = "err" /\ rcmd[c] > 0 /\ mu = NoCaller)
             => client = "nil"
       /\ (rpc[c] = "connectLock" /\ mu = c /\ client = "nil") => ENABLED Lock(c)

\* C2: every call of a router-client operation eventually returns to its
\* caller: it takes the session mutex, connects, runs its command and releases
\* the mutex.
C2_EveryCallReturns ==
    \A c \in Callers : (rpc[c] = "lock") ~> (rpc[c] = "idle" /\ rres[c] # "none")


(***************************************************************************)
(* Collector and store                                                     *)
(***************************************************************************)
Names == {"xether1", "xether2"}
\* handleSnapshot is called for this interface only (service.go:403).
SnapshotName == "xether2"
Counters == 0..MaxCounter
\* What a traffic probe leaves in trafficMap for an interface (lines 318-337):
\* nothing when GetTrafficStats failed, or the two rates.  A rate (a float, in
\* Mbps) is carried through and never computed with: one nonzero pair stands
\* for all.
NoRates == [absent |-> TRUE]
ProbeResults == {NoRates, [rx |-> 1, tx |-> 1]}
\* A run spans one midnight: the days the clock shows.
Days == {1, 2}
\* collectData's retry loop (service.go:294).
MaxAttempts == 3
\* handleSnapshot's growth threshold, 10*1024*1024*1024 bytes (service.go:419);
\* the counters of the model are in units of 10 GiB.
SnapshotGrowth == 1
\* Range of handleSnapshot's uint64 arithmetic (service.go:416), in that unit.
Uint64Range == 1024

NoRow == [absent |-> TRUE]

\* uint64 subtraction: wraps below zero.
Sub64(a, b) == IF a >= b THEN a - b ELSE a - b + Uint64Range

RECURSIVE DistinctSeqs(_)
\* The sequences of distinct elements of S.
DistinctSeqs(S) ==
    {<<>>} \cup UNION {{<<x>> \o t : t \in DistinctSeqs(S \ {x})} : x \in S}

\* What GetInterfaces can return (mikrotik.go:124-140), as far as the order
\* and the names go.  The counters of a sample, and the rates the probes got
\* for it (service.go:318-337), are drawn where the write loop first reads
\* them (SaveInterfaceData): nothing reads them before.
InterfaceLists == DistinctSeqs(Names)

MonInit ==
    /\ dbMutex = "free"
    /\ pc = "idle"
    /\ path = "none"
    /\ attempt = 0
    /\ lastErr = FALSE
    /\ interfaces = <<>>
    /\ iface = NoRow
    /\ idx = 0
    /\ isReset = FALSE
    /\ saveNow = 0
    /\ known = <<>>
    /\ offNow = 0
    /\ clock = 1
    /\ onlineTicks = 0
    /\ ifaceRows = [n \in Names |-> NoRow]
    /\ resetLogs = <<>>
    /\ snapshots = <<>>
    /\ quotas = [k \in Names \X Days |-> NoRow]
    /\ offlineRuns = 0
    /\ quotaCalls = <<>>

\* The locals of collectData and its callees, gone when the tick returns.
ClearLocals ==
    /\ attempt' = 0
    /\ lastErr' = FALSE
    /\ interfaces' = <<>>
    /\ iface' = NoRow
    /\ idx' = 0
    /\ isReset' = FALSE
    /\ saveNow' = 0
    /\ known' = <<>>
    /\ offNow' = 0
    /\ path' = "none"
    /\ offlineRuns' = 0
    /\ quotaCalls' = <<>>

store == <<ifaceRows, resetLogs, snapshots, quotas>>

\* ---- saveInterfaceData's pieces (service.go:362-405)

\* A detection that looks at the receive counter only.
IsResetRxOnly(existing, s) ==
    existing # NoRow /\ s.rx < existing.rx

\* isReset (line 366): a row exists and a counter went down.
IsReset(existing, s) ==
    existing # NoRow /\ (s.rx < existing.rx \/ s.tx < existing.tx)

\* The upsert on interface_name (lines 379-391).
Upsert(rows, s, now) ==
    [rows EXCEPT ![s.name] = [rx |-> s.rx, tx |-> s.tx,
                              rxRate |-> s.rxRate, txRate |-> s.txRate,
                              lastSeen |-> now]]

\* The CounterResetLog row (lines 394-400).
ResetLogRow(existing, s) ==
    [name |-> s.name, prev |-> existing.rx + existing.tx,
     new |-> s.rx + s.tx, method |-> "sudden_drop"]

\* Lines 393-401.
AppendResetLog(logs, existing, s, reset) ==
    IF reset THEN Append(logs, ResetLogRow(existing, s)) ELSE logs

SnapshotsOf(snaps, n) == SelectSeq(snaps, LAMBDA e : e.name = n)

\* A condition that takes a snapshot on first sight and on growth only.
SnapshotDueNoReset(snaps, s, reset) ==
    LET mine == SelectSeq(snaps, LAMBDA e : e.name = s.name)
    IN  mine = <<>> \/ s.rx + s.tx > mine[Len(mine)].total + 1

\* handleSnapshot's condition (line 419).  The last snapshot of a name is the
\* one inserted last (time stamps grow with insertion; the rows of the two
\* append-only tables are modelled without them); it is the zero row when
\* there is none.
SnapshotDue(snaps, s, reset) ==
    LET mine == SnapshotsOf(snaps, s.name)
        lastTotal == IF mine = <<>> THEN 0 ELSE mine[Len(mine)].total
    IN  mine = <<>> \/ reset \/ Sub64(s.rx + s.tx, lastTotal) > SnapshotGrowth

\* handleSnapshot (lines 414-430), called for xether2 only (line 403).
HandleSnapshot(snaps, s, reset) ==
    IF s.name = SnapshotName /\ SnapshotDue(snaps, s, reset)
    THEN Append(snaps, [name |-> s.name, rx |-> s.rx, tx |-> s.tx,
                        total |-> s.rx + s.tx, reset |-> reset])
    ELSE snaps

\* ---- updateMonthlyQuota's pieces (service.go:493-579)

\* A day row created with a zero baseline.
NewQuotaZeroBaseline(s) ==
    [rx_bytes |-> 0, tx_bytes |-> 0, total_bytes |-> 0, total_rx |-> 0,
     total_tx |-> 0, last_rx |-> 0, last_tx |-> 0]

\* The day row created on first sight (lines 507-519).
NewQuota(s) ==
    [rx_bytes |-> 0, tx_bytes |-> 0, total_bytes |-> 0, total_rx |-> 0,
     total_tx |-> 0, last_rx |-> s.rx, last_tx |-> s.tx]

\* deltaRx, deltaTx (lines 535-559).
QuotaDelta(q, s, reset) ==
    IF reset \/ s.rx < q.last_rx
    THEN <<s.rx, s.tx>>
    ELSE IF s.rx >= q.last_rx /\ s.tx >= q.last_tx
         THEN <<s.rx - q.last_rx, s.tx - q.last_tx>>
         ELSE <<s.rx, s.tx>>

\* An update that leaves the receive and transmit totals as they are.
UpdatedQuotaNoTotals(q, s, reset) ==
    LET d == QuotaDelta(q, s, reset)
    IN  [rx_bytes |-> q.rx_bytes + d[1],
         tx_bytes |-> q.tx_bytes + d[2],
         total_bytes |-> (q.rx_bytes + d[1]) + (q.tx_bytes + d[2]),
         total_rx |-> q.total_rx,
         total_tx |-> q.total_tx,
         last_rx |-> s.rx,
         last_tx |-> s.tx]

\* An update that stores the deltas in place of the sums.
UpdatedQuotaOverwrite(q, s, reset) ==
    LET d == QuotaDelta(q, s, reset)
    IN  [rx_bytes |-> d[1],
         tx_bytes |-> d[2],
         total_bytes |-> d[1] + d[2],
         total_rx |-> q.total_rx + d[1],
         total_tx |-> q.total_tx + d[2],
         last_rx |-> s.rx,
         last_tx |-> s.tx]

\* The Updates call (lines 564-572).
UpdatedQuota(q, s, reset) ==
    LET d == QuotaDelta(q, s, reset)
    IN  [rx_bytes |-> q.rx_bytes + d[1],
         tx_bytes |-> q.tx_bytes + d[2],
         total_bytes |-> (q.rx_bytes + d[1]) + (q.tx_bytes + d[2]),
         total_rx |-> q.total_rx + d[1],
         total_tx |-> q.total_tx + d[2],
         last_rx |-> s.rx,
         last_tx |-> s.tx]

\* updateMonthlyQuota's body, between its Lock and its return.
MonthlyQuotaAfter(qs, s, reset, now) ==
    LET k == <<s.name, now>>
    IN  [qs EXCEPT ![k] = IF qs[k] = NoRow THEN NewQuota(s) ELSE UpdatedQuota(qs[k], s, reset)]

\* ---- the monitoring loop

\* A dbMutex that lets every frame in.
DbMutexNoExclusion == TRUE

\* dbMutex.Lock() returns only while no frame holds dbMutex (sync.Mutex is
\* not reentrant).
DbMutexFree == dbMutex = "free"

\* ticker.C fires and collectData starts (lines 273-289).
Tick ==
    /\ pc = "idle"
    /\ pc' = "inventory"
    /\ ClearLocals
    /\ UNCHANGED <<dbMutex, clock, onlineTicks, store, monOthers>>

\* One GetInterfaces call of the retry loop succeeds (lines 294-300).
GetInterfacesOk(list) ==
    /\ pc = "inventory"
    /\ attempt < MaxAttempts
    /\ list # <<>> => onlineTicks < MaxOnlineTicks
    /\ onlineTicks' = IF list # <<>> THEN onlineTicks + 1 ELSE onlineTicks
    /\ attempt' = attempt + 1
    /\ lastErr' = FALSE
    /\ interfaces' = list
    /\ path' = "online"
    /\ pc' = "fanout"
    /\ UNCHANGED <<dbMutex, iface, idx, isReset, saveNow, known, offNow, clock, store,
                   offlineRuns, quotaCalls, monOthers>>

\* A retry loop that gives up at its first failure.
GiveUpAtOnce ==
    /\ pc = "inventory"
    /\ attempt < MaxAttempts
    /\ attempt' = attempt + 1
    /\ lastErr' = TRUE
    /\ pc' = "offline"
    /\ path' = "offline"
    /\ UNCHANGED <<dbMutex, interfaces, iface, idx, isReset, saveNow, known, offNow,
                   clock, onlineTicks, store, offlineRuns, quotaCalls, monOthers>>

\* One GetInterfaces call fails (lines 296-302); after the last one the loop
\* ends with err set and the offline path is taken (lines 306-311).
GetInterfacesFail ==
    /\ pc = "inventory"
    /\ attempt < MaxAttempts
    /\ attempt' = attempt + 1
    /\ lastErr' = TRUE
    /\ pc' = IF attempt + 1 < MaxAttempts THEN "inventory" ELSE "offline"
    /\ path' = IF attempt + 1 < MaxAttempts THEN path ELSE "offline"
    /\ UNCHANGED <<dbMutex, interfaces, iface, idx, isReset, saveNow, known, offNow,
                   clock, onlineTicks, store, offlineRuns, quotaCalls, monOthers>>

\* The traffic probes run and g.Wait() returns (lines 318-337); the write
\* loop starts (line 340).
FanOut ==
    /\ pc = "fanout"
    /\ pc' = "write"
    /\ attempt' = 0
    /\ idx' = 1
    /\ UNCHANGED <<dbMutex, path, lastErr, interfaces, iface, isReset, saveNow,
                   known, offNow, clock, onlineTicks, store, offlineRuns, quotaCalls, monOthers>>

\* The loop of the tick's path has an item left.
HasItem == idx <= (IF path = "online" THEN Len(interfaces) ELSE Len(known))

\* The sample the write loop hands to saveInterfaceData (lines 340-351):
\* the counters GetInterfaces returned for it, and the rates of trafficMap, or
\* zero when its probe failed.
SampleOf(name, rx, tx, rates) ==
    [name |-> name, rx |-> rx, tx |-> tx,
     rxRate |-> IF rates = NoRates THEN 0 ELSE rates.rx,
     txRate |-> IF rates = NoRates THEN 0 ELSE rates.tx]

\* saveInterfaceData, called for the next item of the write loop, from its
\* dbMutex.Lock() to its call of updateMonthlyQuota (lines 357-409).  It holds
\* dbMutex until it returns (defer, line 358).
SaveInterfaceData(rx, tx, rates) ==
    /\ pc = "write"
    /\ path = "online"
    /\ HasItem
    /\ DbMutexFree
    /\ dbMutex' = "save"
    /\ LET s == SampleOf(interfaces[idx], rx, tx, rates)
           existing == ifaceRows[s.name]
           reset == IsReset(existing, s)
       IN  /\ iface' = s
           /\ isReset' = reset
           /\ ifaceRows' = Upsert(ifaceRows, s, clock)
           /\ resetLogs' = AppendResetLog(resetLogs, existing, s, reset)
           /\ snapshots' = HandleSnapshot(snapshots, s, reset)
           /\ saveNow' = clock
           /\ quotaCalls' = Append(quotaCalls, [name |-> s.name, rx |-> s.rx, tx |-> s.tx,
                                                reset |-> reset])
    /\ pc' = "quotaLock"
    /\ UNCHANGED <<path, attempt, lastErr, interfaces, idx, known, offNow, clock,
                   onlineTicks, quotas, offlineRuns, monOthers>>

\* The arguments of the updateMonthlyQuota call in progress: from
\* saveInterfaceData (line 409) or from RecordOfflineStatus (lines 468-477).
QuotaArg ==
    IF path = "online"
    THEN [s |-> iface, reset |-> isReset, now |-> saveNow]
    ELSE [s |-> [name |-> known[idx].name, rx |-> known[idx].rx, tx |-> known[idx].tx],
          reset |-> FALSE, now |-> offNow]

\* updateMonthlyQuota from its dbMutex.Lock() to its return with the deferred
\* Unlock (lines 487-578); the caller goes on to its next item
\* (saveInterfaceData returns to the loop of line 340, RecordOfflineStatus to
\* that of line 447).
UpdateMonthlyQuota ==
    /\ pc = "quotaLock"
    /\ DbMutexFree
    /\ quotas' = MonthlyQuotaAfter(quotas, QuotaArg.s, QuotaArg.reset, QuotaArg.now)
    /\ dbMutex' = "free"
    /\ idx' = idx + 1
    /\ pc' = IF path = "online" THEN "write" ELSE "offlineRow"
    /\ UNCHANGED <<path, attempt, lastErr, interfaces, iface, isReset, saveNow, known,
                   offNow, clock, onlineTicks, ifaceRows, resetLogs, snapshots,
                   offlineRuns, quotaCalls, monOthers>>

\* The rows db.Find can return (line 438): every row of the table, in the
\* order the store gives them.
KnownLists ==
    LET present == {n \in Names : ifaceRows[n] # NoRow}
    IN  {[i \in 1..Len(ns) |-> [name |-> ns[i], rx |-> ifaceRows[ns[i]].rx,
                                tx |-> ifaceRows[ns[i]].tx]] :
            ns \in {q \in DistinctSeqs(present) : Len(q) = Cardinality(present)}}

\* RecordOfflineStatus loads the known rows and takes now (lines 437-446).
OfflineStart(rows) ==
    /\ pc = "offline"
    /\ offlineRuns' = offlineRuns + 1
    /\ pc' = "offlineRow"
    /\ known' = rows
    /\ offNow' = clock
    /\ attempt' = 0
    /\ idx' = 1
    /\ UNCHANGED <<dbMutex, path, lastErr, interfaces, iface, isReset,
                   saveNow, clock, onlineTicks, store, quotaCalls, monOthers>>

\* An offline mark that touches last_seen only.
MarkOfflineKeepRates(rows, n, now) ==
    [rows EXCEPT ![n] = [@ EXCEPT !.lastSeen = now]]

\* The Updates call of the offline loop (lines 458-462): by primary key.
MarkOffline(rows, n, now) ==
    [rows EXCEPT ![n] = [@ EXCEPT !.rxRate = 0, !.txRate = 0, !.lastSeen = now]]

\* One round of RecordOfflineStatus's loop up to the call of
\* updateMonthlyQuota (lines 447-477).
OfflineRow ==
    /\ pc = "offlineRow"
    /\ HasItem
    /\ ifaceRows' = MarkOffline(ifaceRows, known[idx].name, offNow)
    /\ quotaCalls' = Append(quotaCalls, [name |-> known[idx].name, rx |-> known[idx].rx,
                                         tx |-> known[idx].tx, reset |-> FALSE])
    /\ pc' = "quotaLock"
    /\ UNCHANGED <<dbMutex, path, attempt, lastErr, interfaces, iface, idx, isReset,
                   saveNow, known, offNow, clock, onlineTicks, resetLogs, snapshots, quotas,
                   offlineRuns, monOthers>>

\* The loop of the tick's path is over and collectData returns (lines 353,
\* 312-313).
TickDone ==
    /\ pc \in {"write", "offlineRow"}
    /\ ~HasItem
    /\ pc' = "idle"
    /\ ClearLocals
    /\ UNCHANGED <<dbMutex, clock, onlineTicks, store, monOthers>>

\* The monitoringLoop goroutine waits in dbMutex.Lock() and the mutex is held.
Blocked == pc \in {"write", "quotaLock"} /\ HasItem /\ ~DbMutexFree

\* A process whose collector is blocked is stopped and started again
\* (NewMonitoringService, Start): memory is new, the database file is the one
\* the last run left.
Restart ==
    /\ Blocked
    /\ pc' = "idle"
    /\ dbMutex' = "free"
    /\ ClearLocals
    /\ UNCHANGED <<clock, onlineTicks, store, monOthers>>

\* Time passes into the next day, between two ticks.
AdvanceClock ==
    /\ pc = "idle"
    /\ clock + 1 \in Days
    /\ clock' = clock + 1
    /\ UNCHANGED <<dbMutex, pc, path, attempt, lastErr, interfaces, iface, idx,
                   isReset, saveNow, known, offNow, onlineTicks, store, offlineRuns,
                   quotaCalls, monOthers>>

\* The steps of the monitoringLoop goroutine.
CollectorStep ==
    \/ Tick
    \/ \E list \in InterfaceLists : GetInterfacesOk(list)
    \/ GetInterfacesFail
    \/ FanOut
    \/ \E rx, tx \in Counters, rates \in ProbeResults :
          SaveInterfaceData(rx, tx, rates)
    \/ UpdateMonthlyQuota
    \/ \E rows \in KnownLists : OfflineStart(rows)
    \/ OfflineRow
    \/ TickDone

MonNext ==
    \/ CollectorStep
    \/ Restart
    \/ AdvanceClock



(***************************************************************************)
(* Goroutines contending for dbMutex                                       *)
(*                                                                         *)
(* dbMutex is a package variable: every goroutine of the process that runs *)
(* a collection path goes through it.  Here several goroutines run the     *)
(* per-interface write of the online path (saveInterfaceData) and the      *)
(* updater call of the offline path (updateMonthlyQuota from               *)
(* RecordOfflineStatus) side by side, and the updater's load of the row    *)
(* and its write are separate steps.                                       *)
(***************************************************************************)
Writers == {"g1", "g2"}
NoCall == [absent |-> TRUE]

WriterInit ==
    /\ wpc = [w \in Writers |-> "idle"]
    /\ wcall = [w \in Writers |-> NoCall]
    /\ wrow = [w \in Writers |-> NoRow]
    /\ wcalls = 0

\* The day row a goroutine's updater call works on.
WriterKey(w) == <<wcall[w].s.name, clock>>

\* A goroutine starts saveInterfaceData with a sample (online) or
\* updateMonthlyQuota with stored counters and isReset = false (offline), and
\* reaches the dbMutex.Lock() of that function.
WriterCall(w, online, s) ==
    /\ wpc[w] = "idle"
    /\ wcalls < MaxWriterCalls
    /\ wcalls' = wcalls + 1
    /\ wcall' = [wcall EXCEPT ![w] = [online |-> online, s |-> s, reset |-> FALSE]]
    /\ wpc' = [wpc EXCEPT ![w] = IF online THEN "saveLock" ELSE "quotaLock"]
    /\ wrow' = [wrow EXCEPT ![w] = NoRow]
    /\ UNCHANGED <<monVars, writerOthers>>

\* dbMutex.Lock() returns, in saveInterfaceData (line 357) or in
\* updateMonthlyQuota (line 487).
WriterLock(w) ==
    /\ wpc[w] \in {"saveLock", "quotaLock"}
    /\ DbMutexFree
    /\ dbMutex' = w
    /\ wpc' = [wpc EXCEPT ![w] = IF wpc[w] = "saveLock" THEN "saveBody" ELSE "load"]
    /\ UNCHANGED <<pc, path, attempt, lastErr, interfaces, iface, idx, isReset, saveNow,
                   known, offNow, clock, onlineTicks, store, offlineRuns, quotaCalls,
                   wcall, wrow, wcalls, writerOthers>>

\* saveInterfaceData's body up to its call of updateMonthlyQuota (lines
\* 362-409); dbMutex stays held.
WriterSave(w) ==
    /\ wpc[w] = "saveBody"
    /\ LET s == wcall[w].s
           existing == ifaceRows[s.name]
           reset == IsReset(existing, s)
       IN  /\ wcall' = [wcall EXCEPT ![w].reset = reset]
           /\ ifaceRows' = Upsert(ifaceRows, s, clock)
           /\ resetLogs' = AppendResetLog(resetLogs, existing, s, reset)
           /\ snapshots' = HandleSnapshot(snapshots, s, reset)
    /\ wpc' = [wpc EXCEPT ![w] = "quotaLock"]
    /\ UNCHANGED <<dbMutex, pc, path, attempt, lastErr, interfaces, iface, idx, isReset,
                   saveNow, known, offNow, clock, onlineTicks, quotas, offlineRuns,
                   quotaCalls, wrow, wcalls, writerOthers>>

\* updateMonthlyQuota loads the day row (lines 500-502).
WriterLoad(w) ==
    /\ wpc[w] = "load"
    /\ wrow' = [wrow EXCEPT ![w] = quotas[WriterKey(w)]]
    /\ wpc' = [wpc EXCEPT ![w] = "store"]
    /\ UNCHANGED <<monVars, wcall, wcalls, writerOthers>>

\* updateMonthlyQuota creates the row, or writes the sums computed from the
\* row it loaded (lines 504-572), and returns; the deferred Unlock releases
\* dbMutex.
WriterStore(w) ==
    /\ wpc[w] = "store"
    /\ quotas' = [quotas EXCEPT ![WriterKey(w)] =
                     IF wrow[w] = NoRow THEN NewQuota(wcall[w].s)
                     ELSE UpdatedQuota(wrow[w], wcall[w].s, wcall[w].reset)]
    /\ dbMutex' = "free"
    /\ wpc' = [wpc EXCEPT ![w] = "idle"]
    /\ UNCHANGED <<pc, path, attempt, lastErr, interfaces, iface, idx, isReset, saveNow,
                   known, offNow, clock, onlineTicks, ifaceRows, resetLogs, snapshots,
                   offlineRuns, quotaCalls, wcall, wrow, wcalls, writerOthers>>

WritersNext ==
    \/ \E w \in Writers, online \in BOOLEAN, n \in Names, rx, tx \in Counters :
          WriterCall(w, online, SampleOf(n, rx, tx, NoRates))
    \/ \E w \in Writers : WriterLock(w)
    \/ \E w \in Writers : WriterSave(w)
    \/ \E w \in Writers : WriterLoad(w)
    \/ \E w \in Writers : WriterStore(w)

\* The goroutines inside the updater's read-modify-write.
InUpdater == {w \in Writers : wpc[w] \in {"load", "store"}}

\* C12: the updater's read-modify-write of a day row is mutually exclusive:
\* no two executions, started from the online write or from the offline path,
\* are inside it at once, and the row an execution is about to write is still
\* the row it loaded, so that no delta is lost.
C12_UpdaterExclusive ==
    /\ Cardinality(InUpdater) <= 1
    /\ \A w \in Writers : wpc[w] = "store" => wrow[w] = quotas[WriterKey(w)]
    /\ \A w \in InUpdater : dbMutex = w

\* One goroutine is about to add a delta to an existing day row while the
\* other waits at the updater's Lock() for the same row.
C12_Witness ==
    \E w, v \in Writers :
       /\ w # v
       /\ wpc[w] = "store" /\ wrow[w] # NoRow /\ wcall[w].s.rx > wrow[w].last_rx
       /\ wpc[v] = "quotaLock" /\ ~wcall[v].online
       /\ WriterKey(v) = WriterKey(w)

(***************************************************************************)
(* Properties of the collector and the store                               *)
(***************************************************************************)

\* C3: a per-interface write of the online path that finds a row and brings
\* a lower rx or a lower tx counter appends exactly one CounterResetLog row,
\* with previous_total = old_rx + old_tx and new_total = new_rx + new_tx; a
\* write without regression, or for a name without a row, appends none (and
\* no other step appends one).
C3_ResetLogged ==
    [][IF pc = "write" /\ pc' = "quotaLock"
       THEN LET n == interfaces[idx]
                old == ifaceRows[n]
                new == ifaceRows'[n]
            IN  IF old # NoRow /\ (new.rx < old.rx \/ new.tx < old.tx)
                THEN resetLogs' = Append(resetLogs,
                                         [name |-> n, prev |-> old.rx + old.tx,
                                          new |-> new.rx + new.tx,
                                          method |-> "sudden_drop"])
                ELSE resetLogs' = resetLogs
       ELSE resetLogs' = resetLogs]_vars

\* An online write has found a regression and its log row is the last one.
C3_Witness ==
    /\ path = "online" /\ pc = "quotaLock" /\ isReset
    /\ resetLogs # <<>>
    /\ resetLogs[Len(resetLogs)].name = iface.name
    /\ resetLogs[Len(resetLogs)].new = iface.rx + iface.tx
    /\ resetLogs[Len(resetLogs)].prev > resetLogs[Len(resetLogs)].new

\* C4: every MonthlyQuota day row has rx_bytes <= total_rx,
\* tx_bytes <= total_tx and total_bytes = rx_bytes + tx_bytes, in every
\* reachable state.
C4_QuotaRowConsistent ==
    \A k \in Names \X Days :
       quotas[k] # NoRow =>
          /\ quotas[k].rx_bytes <= quotas[k].total_rx
          /\ quotas[k].tx_bytes <= quotas[k].total_tx
          /\ quotas[k].total_bytes = quotas[k].rx_bytes + quotas[k].tx_bytes

\* An interface has a row for each of two days, and the later one has
\* accumulated traffic.
C4_Witness ==
    \E n \in Names :
       /\ quotas[<<n, 1>>] # NoRow
       /\ quotas[<<n, 2>>] # NoRow
       /\ quotas[<<n, 2>>].total_bytes > 0

\* C5: rx_bytes, tx_bytes, total_bytes, total_rx and total_tx of a day row
\* never decrease from one write to the next (and a row, once there, stays).
C5_QuotaMonotone ==
    [][\A k \in Names \X Days :
          quotas[k] # NoRow =>
             /\ quotas'[k] # NoRow
             /\ quotas'[k].rx_bytes >= quotas[k].rx_bytes
             /\ quotas'[k].tx_bytes >= quotas[k].tx_bytes
             /\ quotas'[k].total_bytes >= quotas[k].total_bytes
             /\ quotas'[k].total_rx >= quotas[k].total_rx
             /\ quotas'[k].total_tx >= quotas[k].total_tx]_vars

\* An updater call has just written the day row of an interface whose
\* counters fell (a reset is logged for it), and the row holds traffic.
C5_Witness ==
    /\ pc = "offlineRow" /\ idx > 1
    /\ quotas[<<known[idx - 1].name, offNow>>] # NoRow
    /\ quotas[<<known[idx - 1].name, offNow>>].total_bytes > 0
    /\ \E i \in 1..Len(resetLogs) : resetLogs[i].name = known[idx - 1].name

\* C6: over online ticks without reset or regression the day row ends with
\* rx_bytes = rx_n - rx_1 and tx_bytes = tx_n - tx_1: the online write that
\* creates the row adds nothing, and every later online write adds the
\* difference to the cached last counters.  Stated of one online write: its
\* updater call goes through and leaves the row so.
C6_OnlineDeltas ==
    (path = "online" /\ pc = "quotaLock" /\ ~isReset) =>
       LET k == <<iface.name, saveNow>>
           q == quotas[k]
       IN  (q = NoRow \/ (iface.rx >= q.last_rx /\ iface.tx >= q.last_tx)) =>
              ENABLED (/\ UpdateMonthlyQuota
                       /\ quotas'[k].rx_bytes =
                             (IF q = NoRow THEN 0 ELSE q.rx_bytes + (iface.rx - q.last_rx))
                       /\ quotas'[k].tx_bytes =
                             (IF q = NoRow THEN 0 ELSE q.tx_bytes + (iface.tx - q.last_tx)))

\* C7: on an existing day row, when isReset holds or cur_rx < last_rx_bytes
\* or cur_tx < last_tx_bytes, the updater call adds the full current counters
\* to rx_bytes and tx_bytes (so (1000,500), (1200,600), (50,10) in one day
\* leave 250 and 110).
C7_ResetAddsFullCounters ==
    pc = "quotaLock" =>
       LET a == quotaCalls[Len(quotaCalls)]
           k == <<a.name, IF path = "online" THEN saveNow ELSE offNow>>
           q == quotas[k]
       IN  (q # NoRow /\ (a.reset \/ a.rx < q.last_rx \/ a.tx < q.last_tx)) =>
              ENABLED (/\ UpdateMonthlyQuota
                       /\ quotas'[k].rx_bytes = q.rx_bytes + a.rx
                       /\ quotas'[k].tx_bytes = q.tx_bytes + a.tx)

\* C8: when an updater call has returned, last_rx_bytes and last_tx_bytes of
\* the row of its interface and day equal the counters passed to it, whether
\* the call created the row or updated it, online and offline.
C8_BaselineIsLastCall ==
    (pc \in {"write", "offlineRow"} /\ quotaCalls # <<>>) =>
       LET a == quotaCalls[Len(quotaCalls)]
           k == <<a.name, IF path = "online" THEN saveNow ELSE offNow>>
       IN  /\ quotas[k] # NoRow
           /\ quotas[k].last_rx = a.rx
           /\ quotas[k].last_tx = a.tx

\* An updater call has returned on a row that had accumulated traffic before
\* (so that it was created by an earlier call).
C8_Witness ==
    /\ pc = "offlineRow" /\ quotaCalls # <<>>
    /\ LET a == quotaCalls[Len(quotaCalls)]
       IN  /\ quotas[<<a.name, offNow>>] # NoRow
           /\ quotas[<<a.name, offNow>>].total_bytes > 0
           /\ a.rx > 0

\* C9: a tick calls GetInterfaces at most 3 times; when all three fail the
\* offline path runs, exactly once, and the tick goes on to its end; when a
\* call succeeds the offline path does not run in that tick.
C9_RetryThenOffline ==
    /\ attempt <= 3
    /\ offlineRuns <= 1
    /\ pc = "inventory" => (offlineRuns = 0 /\ path = "none" /\ (lastErr <=> attempt > 0))
    /\ pc = "offline" => (attempt = 3 /\ lastErr /\ offlineRuns = 0 /\ path = "offline")
    /\ path = "offline" => (lastErr /\ (pc # "offline" => offlineRuns = 1)
                            /\ ENABLED CollectorStep)
    /\ path = "online" => (~lastErr /\ offlineRuns = 0 /\ pc \in {"fanout", "write", "quotaLock"})

\* All three calls failed and the offline path is at work on the known rows.
C9_Witness ==
    /\ path = "offline" /\ pc = "quotaLock" /\ offlineRuns = 1 /\ lastErr
    /\ Len(known) = 2

\* C10: an offline tick sets rx_rate = tx_rate = 0 and last_seen = now on
\* every known row, leaves the rows' cumulative counters as they were, appends
\* no CounterResetLog and no TrafficSnapshot, and calls the updater once per
\* known interface, with the stored counters and isReset = false.
C10_OfflineTick ==
    /\ [](path = "offline" /\ pc \in {"offlineRow", "quotaLock"} =>
            LET marked == IF pc = "quotaLock" THEN idx ELSE idx - 1
            IN  /\ {known[i].name : i \in 1..Len(known)} = {n \in Names : ifaceRows[n] # NoRow}
                /\ \A i \in 1..Len(known) :
                      /\ ifaceRows[known[i].name].rx = known[i].rx
                      /\ ifaceRows[known[i].name].tx = known[i].tx
                /\ \A i \in 1..marked :
                      /\ ifaceRows[known[i].name].rxRate = 0
                      /\ ifaceRows[known[i].name].txRate = 0
                      /\ ifaceRows[known[i].name].lastSeen = offNow
                /\ offNow = clock
                /\ Len(quotaCalls) = marked
                /\ \A i \in 1..marked :
                      quotaCalls[i] = [name |-> known[i].name, rx |-> known[i].rx,
                                       tx |-> known[i].tx, reset |-> FALSE])
    /\ [][path = "offline" => (resetLogs' = resetLogs /\ snapshots' = snapshots)]_vars

\* An offline tick is through with two known rows, one of which carries
\* counters above zero.
C10_Witness ==
    /\ path = "offline" /\ pc = "offlineRow" /\ ~HasItem
    /\ Len(known) = 2
    /\ known[1].rx + known[1].tx > 0
    /\ Len(quotaCalls) = 2

\* C11: after one or more offline ticks, the first online tick whose
\* counters did not regress adds to the day row exactly the difference
\* between the new counters and the baseline the outage preserved (the
\* counters of the last online tick before it), to rx_bytes and total_rx and to
\* tx_bytes and total_tx.  Stated of that tick's write on the day row the
\* offline ticks left: its updater call goes through and adds that difference.
C11_OnlineAfterOutage ==
    (path = "online" /\ pc = "quotaLock" /\ ~isReset
       /\ quotas[<<iface.name, saveNow>>] # NoRow) =>
       LET k == <<iface.name, saveNow>>
           q == quotas[k]
       IN  (iface.rx >= q.last_rx /\ iface.tx >= q.last_tx) =>
              ENABLED (/\ UpdateMonthlyQuota
                       /\ quotas'[k].rx_bytes - q.rx_bytes = iface.rx - q.last_rx
                       /\ quotas'[k].total_rx - q.total_rx = iface.rx - q.last_rx
                       /\ quotas'[k].tx_bytes - q.tx_bytes = iface.tx - q.last_tx
                       /\ quotas'[k].total_tx - q.total_tx = iface.tx - q.last_tx)

C39_OnlineTickCompletes ==
    (path = "online" /\ pc = "quotaLock") =>
        /\ dbMutex # "save"
        /\ ENABLED UpdateMonthlyQuota


(***************************************************************************)
(* WebSocket hub (websocket package, unnamed/part_004)                     *)
(*                                                                         *)
(* Producers call BroadcastData and BroadcastEvent; the run goroutine      *)
(* takes the messages one by one and handleBroadcast puts them on the Send *)
(* channels of the clients; each client has a readPump, which answers its  *)
(* control messages, and a writePump, which empties its Send channel.      *)
(* client.Closed and client.Send are never closed by the code, so the      *)
(* Closed case of handleBroadcast's select is never ready.                 *)
(***************************************************************************)
Clients == {"c1", "c2"}
hubOthers == <<routerVars, monVars, writerVars, poolVars, wanVars, healthVars, countVars>>

NoMsg == [absent |-> TRUE]
NoSubs == [n \in {} |-> {}]
ZeroMetrics ==
    [messagesSent |-> 0, messagesDropped |-> 0, broadcastsSent |-> 0,
     broadcastsDropped |-> 0, eventsSent |-> 0, eventsDropped |-> 0]

\* The control messages handleMessage tells apart (lines 230-249), with the
\* interfaces a subscribe or unsubscribe names; one that names none is
\* dropped without an answer. "unknown" stands for any other action and for a
\* message that is not JSON (line 225): both are answered by sendError.
Requests ==
    [action : {"subscribe", "unsubscribe"}, ifaces : SUBSET Names]
       \cup [action : {"ping", "get_status", "unknown"}, ifaces : {{}}]

\* State after NewWebSocketManager and Start (lines 58-72).
HubInit ==
    /\ hubMu = "free"
    /\ clients = {}
    /\ subs = NoSubs
    /\ ingress = <<>>
    /\ sendq = [c \in Clients |-> <<>>]
    /\ hpc = "idle"
    /\ hmsg = NoMsg
    /\ hrest = {}
    /\ cpc = [c \in Clients |-> "off"]
    /\ creq = [c \in Clients |-> NoMsg]
    /\ metrics = ZeroMetrics
    /\ bcasts = 0
    /\ ctls = 0
    /\ unsubAcked = [c \in Clients |-> {}]

\* wm.subscriptions[n], empty when the key is absent.
SubscribersOf(m, n) == IF n \in DOMAIN m THEN m[n] ELSE {}

\* subscribeClient's loop (lines 257-262).
Subscribed(m, c, ifs) ==
    [n \in DOMAIN m \cup ifs |->
        IF n \in ifs THEN SubscribersOf(m, n) \cup {c} ELSE m[n]]

\* An unsubscribe that leaves the subscription sets as they are.
UnsubscribedKept(m, c, ifs) == m

\* unsubscribeClient's loop (lines 284-291): a set left empty is deleted.
Unsubscribed(m, c, ifs) ==
    [n \in {k \in DOMAIN m : k \notin ifs \/ m[k] \ {c} # {}} |->
        IF n \in ifs THEN m[n] \ {c} ELSE m[n]]

\* A channel that takes whatever it is sent.
HasRoomAlways(q, cap) == TRUE

\* A send on a buffered channel goes through while the channel has room.
HasRoom(q, cap) == Len(q) < cap

\* The frame serializeData / serializeEvent makes of a message (lines 371-398).
FrameOf(msg) == [type |-> msg.kind, iface |-> msg.iface, id |-> msg.id]
\* The frames sendWelcome, sendSuccess, sendPong, sendStatus, sendError make.
ControlFrame(type) == [type |-> type, iface |-> "", id |-> 0]

\* A BroadcastData whose send waits for room in wm.broadcast.
BroadcastDataBlocking(n) ==
    /\ bcasts < MaxBroadcasts
    /\ HasRoom(ingress, IngressCap)
    /\ bcasts' = bcasts + 1
    /\ ingress' = Append(ingress, [kind |-> "data", iface |-> n, id |-> bcasts + 1])
    /\ metrics' = [metrics EXCEPT !.broadcastsSent = @ + 1]
    /\ UNCHANGED <<hubMu, clients, subs, sendq, hpc, hmsg, hrest, cpc, creq, ctls,
                   unsubAcked, hubOthers>>

\* BroadcastData (lines 402-411): a non-blocking send to wm.broadcast.
BroadcastData(n) ==
    /\ bcasts < MaxBroadcasts
    /\ bcasts' = bcasts + 1
    /\ IF HasRoom(ingress, IngressCap)
       THEN /\ ingress' = Append(ingress, [kind |-> "data", iface |-> n, id |-> bcasts + 1])
            /\ metrics' = [metrics EXCEPT !.broadcastsSent = @ + 1]
       ELSE /\ ingress' = ingress
            /\ metrics' = [metrics EXCEPT !.broadcastsDropped = @ + 1]
    /\ UNCHANGED <<hubMu, clients, subs, sendq, hpc, hmsg, hrest, cpc, creq, ctls, unsubAcked, hubOthers>>

\* BroadcastEvent (lines 414-429), called with a map as data.
BroadcastEvent ==
    /\ bcasts < MaxBroadcasts
    /\ bcasts' = bcasts + 1
    /\ IF HasRoom(ingress, IngressCap)
       THEN /\ ingress' = Append(ingress, [kind |-> "event", iface |-> "", id |-> bcasts + 1])
            /\ metrics' = [metrics EXCEPT !.eventsSent = @ + 1]
       ELSE /\ ingress' = ingress
            /\ metrics' = [metrics EXCEPT !.eventsDropped = @ + 1]
    /\ UNCHANGED <<hubMu, clients, subs, sendq, hpc, hmsg, hrest, cpc, creq, ctls, unsubAcked, hubOthers>>

\* run receives the next message from wm.broadcast (line 77) and calls
\* handleBroadcast, which goes for wm.mu.RLock() (line 84).
HubTake ==
    /\ hpc = "idle"
    /\ ingress # <<>>
    /\ hmsg' = Head(ingress)
    /\ ingress' = Tail(ingress)
    /\ hpc' = "rlock"
    /\ UNCHANGED <<hubMu, clients, subs, sendq, hrest, cpc, creq, metrics, bcasts,
                   ctls, unsubAcked, hubOthers>>

\* Every registered client is handed every message, data or event.
RecipientsAll(msg) == clients

\* The clients handleBroadcast's loop visits: the subscribers of the
\* interface for a RealTimeData (lines 89-90), every client for an
\* EventData (line 106).
Recipients(msg) ==
    IF msg.kind = "data" THEN SubscribersOf(subs, msg.iface) ELSE clients

\* wm.mu.RLock() returns (no writer holds wm.mu); the loop over the
\* subscribers of the interface (line 89-90) or over wm.clients (line 106)
\* starts.
HubRLock ==
    /\ hpc = "rlock"
    /\ hubMu = "free"
    /\ hubMu' = "hub"
    /\ hrest' = Recipients(hmsg)
    /\ hpc' = "deliver"
    /\ UNCHANGED <<clients, subs, ingress, sendq, hmsg, cpc, creq, metrics, bcasts,
                   ctls, unsubAcked, hubOthers>>

\* One round of handleBroadcast's loop: the select on client.Send (lines
\* 91-100, 107-112).
HubDeliver(c) ==
    /\ hpc = "deliver"
    /\ c \in hrest
    /\ hrest' = hrest \ {c}
    /\ IF HasRoom(sendq[c], SendCap)
       THEN /\ sendq' = [sendq EXCEPT ![c] = Append(@, FrameOf(hmsg))]
            /\ metrics' = [metrics EXCEPT !.messagesSent = @ + 1]
       ELSE /\ sendq' = sendq
            /\ metrics' = [metrics EXCEPT !.messagesDropped = @ + 1]
    /\ UNCHANGED <<hubMu, clients, subs, ingress, hpc, hmsg, cpc, creq, bcasts, ctls, unsubAcked, hubOthers>>

\* handleBroadcast returns (deferred RUnlock) and run waits for the next
\* message.
HubDone ==
    /\ hpc = "deliver"
    /\ hrest = {}
    /\ hubMu' = "free"
    /\ hpc' = "idle"
    /\ hmsg' = NoMsg
    /\ UNCHANGED <<clients, subs, ingress, sendq, hrest, cpc, creq, metrics, bcasts,
                   ctls, unsubAcked, hubOthers>>

\* HandleConnection (lines 118-149) registers the client under wm.mu.Lock(),
\* starts its pumps and sends the welcome frame on the channel it has just
\* made.
HandleConnection(c) ==
    /\ cpc[c] = "off"
    /\ hubMu = "free"
    /\ clients' = clients \cup {c}
    /\ sendq' = [sendq EXCEPT ![c] = <<ControlFrame("welcome")>>]
    /\ cpc' = [cpc EXCEPT ![c] = "read"]
    /\ UNCHANGED <<hubMu, subs, ingress, hpc, hmsg, hrest, creq, metrics, bcasts,
                   ctls, unsubAcked, hubOthers>>

\* Where handleMessage's switch sends a control message (lines 230-249).
NextPosition(req) ==
    IF req.action \in {"subscribe", "unsubscribe"}
    THEN (IF req.ifaces = {} THEN "read" ELSE "lock")
    ELSE IF req.action = "get_status" THEN "statusLock"
    ELSE "reply"

\* readPump reads a control message and handleMessage dispatches it (lines
\* 165-250): subscribeClient and unsubscribeClient go for wm.mu.Lock(),
\* sendStatus for the RLock of GetSubscriptions, the others for their send.
ReadRequest(c, req) ==
    /\ cpc[c] = "read"
    /\ ctls < MaxControls
    /\ ctls' = ctls + 1
    /\ creq' = [creq EXCEPT ![c] = IF NextPosition(req) = "read" THEN NoMsg ELSE req]
    /\ cpc' = [cpc EXCEPT ![c] = NextPosition(req)]
    /\ UNCHANGED <<hubMu, clients, subs, ingress, sendq, hpc, hmsg, hrest, metrics,
                   bcasts, unsubAcked, hubOthers>>

\* wm.mu.Lock() returns in subscribeClient or unsubscribeClient and the
\* subscriptions are changed (lines 254-262, 281-291); or the RLock of
\* GetSubscriptions is taken and released (lines 439-448).
ControlLock(c) ==
    /\ cpc[c] \in {"lock", "statusLock"}
    /\ IF cpc[c] = "lock"
       THEN /\ hubMu = "free"
            /\ hubMu' = c
            /\ subs' = IF creq[c].action = "subscribe"
                       THEN Subscribed(subs, c, creq[c].ifaces)
                       ELSE Unsubscribed(subs, c, creq[c].ifaces)
            /\ unsubAcked' = IF creq[c].action = "subscribe"
                             THEN [unsubAcked EXCEPT ![c] = @ \ creq[c].ifaces]
                             ELSE unsubAcked
            /\ cpc' = [cpc EXCEPT ![c] = "ack"]
       ELSE /\ hubMu \in {"free", "hub"}
            /\ cpc' = [cpc EXCEPT ![c] = "reply"]
            /\ UNCHANGED <<hubMu, subs, unsubAcked>>
    /\ UNCHANGED <<clients, ingress, sendq, hpc, hmsg, hrest, creq, metrics, bcasts,
                   ctls, hubOthers>>

\* The frame a send helper puts on client.Send for the message in hand.
ReplyType(pos, req) ==
    IF pos = "ack" THEN "success"
    ELSE IF req.action = "ping" THEN "pong"
    ELSE IF req.action = "get_status" THEN "status"
    ELSE "error"

\* The blocking send of sendSuccess, sendPong, sendStatus or sendError goes
\* through (lines 313-368); subscribeClient and
\* unsubscribeClient then return and their deferred Unlock releases wm.mu.
ControlSend(c) ==
    /\ cpc[c] \in {"ack", "reply"}
    /\ HasRoom(sendq[c], SendCap)
    /\ sendq' = [sendq EXCEPT ![c] = Append(@, ControlFrame(ReplyType(cpc[c], creq[c])))]
    /\ hubMu' = IF cpc[c] = "ack" THEN "free" ELSE hubMu
    /\ unsubAcked' = IF cpc[c] = "ack" /\ creq[c].action = "unsubscribe"
                     THEN [unsubAcked EXCEPT ![c] = @ \cup creq[c].ifaces]
                     ELSE unsubAcked
    /\ cpc' = [cpc EXCEPT ![c] = "read"]
    /\ creq' = [creq EXCEPT ![c] = NoMsg]
    /\ UNCHANGED <<clients, subs, ingress, hpc, hmsg, hrest, metrics, bcasts, ctls, hubOthers>>

\* A writePump that takes the frame sent last.
WritePumpNewestFirst(c) ==
    /\ c \in clients
    /\ sendq[c] # <<>>
    /\ sendq' = [sendq EXCEPT ![c] = SubSeq(@, 1, Len(@) - 1)]
    /\ UNCHANGED <<hubMu, clients, subs, ingress, hpc, hmsg, hrest, cpc, creq, metrics,
                   bcasts, ctls, unsubAcked, hubOthers>>

\* writePump receives the next frame from client.Send and writes it to the
\* connection (lines 186-206).
WritePump(c) ==
    /\ c \in clients
    /\ sendq[c] # <<>>
    /\ sendq' = [sendq EXCEPT ![c] = Tail(@)]
    /\ UNCHANGED <<hubMu, clients, subs, ingress, hpc, hmsg, hrest, cpc, creq, metrics,
                   bcasts, ctls, unsubAcked, hubOthers>>

\* An unregisterClient that leaves the subscription sets as they are.
UnregisteredKept(m, c) == m

\* unregisterClient's loop over wm.subscriptions (lines 303-310): the client
\* is taken out of every set it is in, and a set left empty is deleted.
Unregistered(m, c) ==
    [n \in {k \in DOMAIN m : m[k] \ {c} # {}} |-> m[n] \ {c}]

\* ReadMessage returns an error (the peer closed the connection, or the read
\* deadline passed) and readPump leaves its loop (lines 166-172); its
\* deferred function goes for wm.mu.Lock() in unregisterClient (line 298).
ReadError(c) ==
    /\ cpc[c] = "read"
    /\ cpc' = [cpc EXCEPT ![c] = "unregister"]
    /\ UNCHANGED <<hubMu, clients, subs, ingress, sendq, hpc, hmsg, hrest, creq, metrics,
                   bcasts, ctls, unsubAcked, hubOthers>>

\* unregisterClient (lines 297-311) runs under wm.mu.Lock(); readPump's
\* deferred function then closes the connection (line 155), which ends the
\* client's writePump at its next write.
UnregisterClient(c) ==
    /\ cpc[c] = "unregister"
    /\ hubMu = "free"
    /\ clients' = clients \ {c}
    /\ subs' = Unregistered(subs, c)
    /\ cpc' = [cpc EXCEPT ![c] = "closed"]
    /\ UNCHANGED <<hubMu, ingress, sendq, hpc, hmsg, hrest, creq, metrics,
                   bcasts, ctls, unsubAcked, hubOthers>>

HubNext ==
    \/ \E n \in Names : BroadcastData(n)
    \/ BroadcastEvent
    \/ HubTake
    \/ HubRLock
    \/ \E c \in Clients : HubDeliver(c)
    \/ HubDone
    \/ \E c \in Clients : HandleConnection(c)
    \/ \E c \in Clients, req \in Requests : ReadRequest(c, req)
    \/ \E c \in Clients : ControlLock(c)
    \/ \E c \in Clients : ControlSend(c)
    \/ \E c \in Clients : WritePump(c)

\* The hub with client sessions that end.
SessionsNext ==
    \/ HubNext
    \/ \E c \in Clients : ReadError(c)
    \/ \E c \in Clients : UnregisterClient(c)

(***************************************************************************)
(* Properties of the WebSocket hub                                         *)
(***************************************************************************)
\* The frame a step puts on client c's Send channel, if it puts one.
Grows(c) == Len(sendq'[c]) > Len(sendq[c])
Added(c) == sendq'[c][Len(sendq'[c])]
\* The frames waiting on client c's Send channel.
Queued(c) == {sendq[c][i] : i \in 1..Len(sendq[c])}

\* C15: a data frame for interface I is put on a client's Send channel only
\* while that client is in the subscription set of I; a client subscribed to
\* xether2 alone is handed data frames for xether2 alone.
C15_DataOnlyToSubscribers ==
    [][\A c \in Clients :
          (Grows(c) /\ Added(c).type = "data") =>
             /\ c \in SubscribersOf(subs, Added(c).iface)
             /\ hubMu = "hub"
             /\ Added(c).iface = hmsg.iface]_vars

\* Two clients, each subscribed to one interface, each holding a data frame
\* of its own interface.
C15_Witness ==
    \E c, d \in Clients :
       /\ c \in SubscribersOf(subs, "xether2") /\ c \notin SubscribersOf(subs, "xether1")
       /\ d \in SubscribersOf(subs, "xether1") /\ d \notin SubscribersOf(subs, "xether2")
       /\ \E f \in Queued(c) : f.type = "data" /\ f.iface = "xether2"
       /\ \E f \in Queued(d) : f.type = "data" /\ f.iface = "xether1"

\* C16: from the success frame that acknowledges a client's unsubscribe for
\* interface I until that client subscribes to I again, the client is in no
\* subscription set of I and no data frame for I is put on its Send channel.
C16_NoDataAfterUnsubscribe ==
    /\ [](\A c \in Clients : \A n \in unsubAcked[c] : c \notin SubscribersOf(subs, n))
    /\ [][\A c \in Clients :
            (Grows(c) /\ Added(c).type = "data") => Added(c).iface \notin unsubAcked[c]]_vars

\* The hub has gone through the subscribers of a data message for an
\* interface a client has unsubscribed from, with the acknowledgement sent,
\* and the client's channel holds no frame of that message.
C16_Witness ==
    \E c \in Clients : \E n \in unsubAcked[c] :
       /\ hpc = "deliver" /\ hrest = {}
       /\ hmsg.kind = "data" /\ hmsg.iface = n
       /\ \A f \in Queued(c) : f.id # hmsg.id

\* C17: the hub's loop visits every receiver of a message once; a receiver
\* whose Send channel is full does not get the message and messagesDropped
\* grows by exactly one, a receiver with room gets it once at the end of its
\* channel and messagesSent grows by one; nobody else's channel changes, the
\* loop ends only when every receiver has been visited, and nothing but a
\* visit to a full channel changes messagesDropped.
C17_DropForFullClientOnly ==
    [][/\ (hpc = "deliver" /\ hrest' # hrest) =>
             \E c \in hrest :
                /\ hrest' = hrest \ {c}
                /\ \A d \in Clients \ {c} : sendq'[d] = sendq[d]
                /\ IF Len(sendq[c]) >= SendCap
                   THEN /\ sendq'[c] = sendq[c]
                        /\ metrics'.messagesDropped = metrics.messagesDropped + 1
                        /\ metrics'.messagesSent = metrics.messagesSent
                   ELSE /\ sendq'[c] = Append(sendq[c], FrameOf(hmsg))
                        /\ \A f \in Queued(c) : f.id < hmsg.id
                        /\ metrics'.messagesSent = metrics.messagesSent + 1
                        /\ metrics'.messagesDropped = metrics.messagesDropped
       /\ (hpc = "deliver" /\ hpc' # "deliver") => hrest = {}
       /\ ~(hpc = "deliver" /\ hrest' # hrest) =>
             metrics'.messagesDropped = metrics.messagesDropped]_vars

\* The hub has gone through the receivers of the first message: one of them
\* holds its frame, for another it was dropped.
C17_Witness ==
    /\ hpc = "deliver" /\ hrest = {} /\ hmsg.id = 1
    /\ metrics.messagesSent = 1 /\ metrics.messagesDropped = 1
    /\ \E d \in Clients : \E f \in Queued(d) : f.id = 1

\* C18: the hub never stalls on a client whose Send channel stays full:
\* whenever it has taken a message and waits for wm.mu, the client that holds
\* wm.mu can finish and release it without anything being taken off a
\* channel.
C18_HubNeverStalls ==
    (hpc = "rlock" /\ hubMu # "free") =>
       \E c \in Clients : hubMu = c /\ ENABLED ControlSend(c)

\* The ids of the hub's messages in a sequence of messages or frames grow
\* from its head to its end (the frames of control replies carry id 0).
InHubOrder(q) ==
    \A i, j \in 1..Len(q) : (i < j /\ q[i].id > 0 /\ q[j].id > 0) => q[i].id < q[j].id

\* C19: a client gets its frames in the order the hub processed the
\* messages: run takes the messages off wm.broadcast oldest first, a frame is
\* put at the end of a client's Send channel, writePump takes the frame at
\* the head, and no channel ever holds a later message ahead of an earlier
\* one, or a message the hub has yet to process.
C19_PerClientOrder ==
    /\ [](/\ InHubOrder(ingress)
          /\ \A c \in Clients : InHubOrder(sendq[c])
          /\ \A c \in Clients : \A f \in Queued(c) :
                /\ \A i \in 1..Len(ingress) : f.id < ingress[i].id
                /\ (hpc = "rlock" => f.id < hmsg.id)
                /\ (hpc = "deliver" => f.id <= hmsg.id))
    /\ [][/\ hpc' = "rlock" /\ hpc # "rlock" =>
                ingress # <<>> /\ hmsg' = Head(ingress) /\ ingress' = Tail(ingress)
          /\ \A c \in Clients :
                \/ sendq'[c] = sendq[c]
                \/ sendq[c] # <<>> /\ sendq'[c] = Tail(sendq[c])
                \/ Grows(c) /\ sendq'[c] = Append(sendq[c], Added(c))]_vars

\* The only client was handed both messages; its writePump has taken the
\* first off the channel and the second is at the head.
C19_Witness ==
    \E c \in Clients :
       /\ clients = {c}
       /\ metrics.messagesSent = 2
       /\ Len(sendq[c]) = 1 /\ sendq[c][1].id = 2

\* C20: BroadcastData and BroadcastEvent can always be carried out, whatever
\* the state of wm.broadcast and of the clients; a call made while
\* wm.broadcast is full leaves it as it is and adds one to the dropped
\* counter of its kind (broadcastsDropped, eventsDropped), any other call puts
\* its message at the end and adds one to the sent counter of its kind
\* (broadcastsSent, eventsSent); no other counter changes.
C20_BroadcastNeverBlocks ==
    /\ [](bcasts < MaxBroadcasts =>
             /\ ENABLED BroadcastEvent
             /\ \A n \in Names : ENABLED BroadcastData(n))
    /\ [][/\ \A n \in Names : BroadcastData(n) =>
                IF Len(ingress) >= IngressCap
                THEN /\ ingress' = ingress
                     /\ metrics' = [metrics EXCEPT !.broadcastsDropped = @ + 1]
                ELSE /\ Len(ingress') = Len(ingress) + 1
                     /\ ingress'[Len(ingress')].kind = "data"
                     /\ ingress'[Len(ingress')].iface = n
                     /\ SubSeq(ingress', 1, Len(ingress)) = ingress
                     /\ metrics' = [metrics EXCEPT !.broadcastsSent = @ + 1]
          /\ BroadcastEvent =>
                IF Len(ingress) >= IngressCap
                THEN /\ ingress' = ingress
                     /\ metrics' = [metrics EXCEPT !.eventsDropped = @ + 1]
                ELSE /\ Len(ingress') = Len(ingress) + 1
                     /\ ingress'[Len(ingress')].kind = "event"
                     /\ SubSeq(ingress', 1, Len(ingress)) = ingress
                     /\ metrics' = [metrics EXCEPT !.eventsSent = @ + 1]
          /\ bcasts' = bcasts =>
                /\ metrics'.broadcastsSent = metrics.broadcastsSent
                /\ metrics'.broadcastsDropped = metrics.broadcastsDropped
                /\ metrics'.eventsSent = metrics.eventsSent
                /\ metrics'.eventsDropped = metrics.eventsDropped]_vars

\* An event was accepted and, with it still waiting in wm.broadcast, a data
\* message was dropped.
C20_Witness ==
    /\ metrics.eventsSent = 1 /\ metrics.broadcastsDropped = 1
    /\ Len(ingress) = IngressCap /\ ingress[1].kind = "event"

plumbOthers == <<routerVars, monVars, writerVars, hubVars, wanVars, healthVars, countVars>>
poolOthers == <<plumbOthers, plumbVars>>

Workers == 0..(MaxWorkers - 1)
NoJob == [absent |-> TRUE]

\* NewWorkerPool's breaker configuration (lines 459-463), seconds.
FailureThreshold == 5
RecoveryTimeout == 60
HalfOpenMaxCalls == 3
\* processJob's cap on the backoff (line 825), seconds.
MaxBackoff == 30
\* Time passes in steps of half the recovery timeout; time.Since(lastFailure)
\* is followed up to the first value beyond the timeout.
TimeStep == RecoveryTimeout \div 2
LongAgo == RecoveryTimeout + TimeStep

\* max_retries of the jobs submitted.
RetryBudgets == {0, 2}

NoRetry == [absent |-> TRUE]
\* streak: failures recorded since the last recorded success and since the
\*   breaker last became Closed;
\* hoSuccesses, hoFailures, hoAdmitted: successes and failures recorded, and
\*   jobs handed to workers, since the breaker last became HalfOpen;
\* lastRetry: the number of the last retry and the time it waited.
NoHistory ==
    [streak |-> 0, hoSuccesses |-> 0, hoFailures |-> 0, hoAdmitted |-> 0,
     lastRetry |-> NoRetry]

\* State after NewWorkerPool and Start (lines 449-516); lastFailure is the
\* zero time.
PoolInit ==
    /\ cb = [state |-> "Closed", failureCount |-> 0, successCount |-> 0, since |-> LongAgo]
    /\ jobQueue = <<>>
    /\ poolMetrics = [TotalJobs |-> 0, SuccessJobs |-> 0, FailedJobs |-> 0]
    /\ running = {}
    /\ submits = 0
    /\ execs = 0
    /\ hist = NoHistory
    /\ dpc = "idle"
    /\ djob = NoJob
    /\ dworker = 0
    /\ lastUsed = 0
    /\ wkq = [w \in Workers |-> NoJob]
    /\ wkpc = [w \in Workers |-> "register"]
    /\ registered = 0

\* A breaker that lets every job through.
AllowAlways(b) == TRUE

\* Allow (lines 549-554).
Allow(b) == b.state # "Open"

\* A RecordSuccess that also closes the breaker.
RecordSuccessCloses(b) ==
    [b EXCEPT !.successCount = IF b.state = "HalfOpen" THEN @ + 1 ELSE @,
              !.failureCount = 0,
              !.state = "Closed"]

\* RecordSuccess (lines 557-565).
RecordSuccess(b) ==
    [b EXCEPT !.successCount = IF b.state = "HalfOpen" THEN @ + 1 ELSE @,
              !.failureCount = 0]

\* A RecordFailure that opens the breaker on the first failure.
RecordFailureTrips(b) ==
    [b EXCEPT !.failureCount = @ + 1, !.since = 0, !.state = "Open"]

\* RecordFailure (lines 568-578).
RecordFailure(b) ==
    [b EXCEPT !.failureCount = @ + 1,
              !.since = 0,
              !.state = IF b.failureCount + 1 >= FailureThreshold THEN "Open" ELSE @]

\* A checkState that closes a HalfOpen breaker whatever its success count.
checkStateEager(b) ==
    CASE b.state = "Open" /\ b.since > RecoveryTimeout ->
            [b EXCEPT !.state = "HalfOpen", !.successCount = 0]
      [] b.state = "HalfOpen" ->
            [b EXCEPT !.state = "Closed", !.failureCount = 0]
      [] OTHER -> b

\* checkState (lines 530-546).
checkState(b) ==
    CASE b.state = "Open" /\ b.since > RecoveryTimeout ->
            [b EXCEPT !.state = "HalfOpen", !.successCount = 0]
      [] b.state = "HalfOpen" /\ b.successCount >= HalfOpenMaxCalls ->
            [b EXCEPT !.state = "Closed", !.failureCount = 0]
      [] OTHER -> b

\* What the history records when the breaker goes from state a to state b.
Entered(h, a, b) ==
    IF a = b THEN h
    ELSE IF b = "Closed" THEN [h EXCEPT !.streak = 0]
    ELSE IF b = "HalfOpen"
         THEN [h EXCEPT !.hoSuccesses = 0, !.hoFailures = 0, !.hoAdmitted = 0]
    ELSE h

\* 1 << n (line 824).
RECURSIVE Shl1(_)
Shl1(n) == IF n = 0 THEN 1 ELSE 2 * Shl1(n - 1)

\* processJob's backoff for a job whose RetryCount it has just raised to k
\* (lines 824-827), seconds.
Backoff(k) == IF Shl1(k) > MaxBackoff THEN MaxBackoff ELSE Shl1(k)

\* SubmitJob's select (lines 677-685): the job goes on wp.jobQueue if there
\* is room, otherwise the call gives up after five seconds with an error.
Accepts(q) == Len(q) < QueueCap
QueueAfterSubmit(q, job) == IF Accepts(q) THEN Append(q, job) ELSE q
MetricsAfterSubmit(m, q) == IF Accepts(q) THEN [m EXCEPT !.TotalJobs = @ + 1] ELSE m

\* SubmitJob called by the API handler (part_004:853-882) with a new job.
SubmitJob(budget) ==
    /\ submits < MaxSubmits
    /\ submits' = submits + 1
    /\ jobQueue' = QueueAfterSubmit(jobQueue, [id |-> submits + 1, RetryCount |-> 0,
                                               MaxRetries |-> budget])
    /\ poolMetrics' = MetricsAfterSubmit(poolMetrics, jobQueue)
    /\ UNCHANGED <<cb, running, execs, hist, poolOthers>>

\* dispatch takes a job off wp.jobQueue and asks the breaker (lines 721-729);
\* a job the breaker allows goes to a worker (lines 732-746).
Dispatch ==
    /\ jobQueue # <<>>
    /\ jobQueue' = Tail(jobQueue)
    /\ IF Allow(cb)
       THEN /\ running' = running \cup {Head(jobQueue)}
            /\ hist' = [hist EXCEPT !.hoAdmitted = IF cb.state = "HalfOpen" THEN @ + 1 ELSE @]
            /\ UNCHANGED poolMetrics
       ELSE /\ poolMetrics' = [poolMetrics EXCEPT !.FailedJobs = @ + 1]
            /\ UNCHANGED <<running, hist>>
    /\ UNCHANGED <<cb, submits, execs, poolOthers>>

\* The job processJob re-submits after a failure (lines 822-823).
Retried(job) == [job EXCEPT !.RetryCount = @ + 1]

\* processJob (lines 775-840) on a job that succeeds (ok) or fails.
processJob(job, ok) ==
    /\ execs < MaxExecs
    /\ execs' = execs + 1
    /\ IF ok
       THEN /\ cb' = RecordSuccess(cb)
            /\ poolMetrics' = [poolMetrics EXCEPT !.SuccessJobs = @ + 1]
            /\ hist' = [hist EXCEPT !.streak = 0,
                                    !.hoSuccesses = IF cb.state = "HalfOpen" THEN @ + 1 ELSE @]
            /\ UNCHANGED jobQueue
       ELSE /\ cb' = RecordFailure(cb)
            /\ LET failed == [poolMetrics EXCEPT !.FailedJobs = @ + 1]
                   h == Entered([hist EXCEPT !.streak = @ + 1,
                                             !.hoFailures = IF cb.state = "HalfOpen"
                                                            THEN @ + 1 ELSE @],
                                cb.state, cb'.state)
               IN IF job.RetryCount < job.MaxRetries
                  THEN /\ jobQueue' = QueueAfterSubmit(jobQueue, Retried(job))
                       /\ poolMetrics' = MetricsAfterSubmit(failed, jobQueue)
                       /\ hist' = [h EXCEPT !.lastRetry =
                                      [k |-> job.RetryCount + 1,
                                       waited |-> Backoff(job.RetryCount + 1)]]
                  ELSE /\ jobQueue' = jobQueue
                       /\ poolMetrics' = failed
                       /\ hist' = h

\* A worker that is free takes the job it was handed and runs processJob.
ProcessJob(job, ok) ==
    /\ job \in running
    /\ running' = running \ {job}
    /\ processJob(job, ok)
    /\ UNCHANGED <<submits, poolOthers>>

\* monitor's ticker fires and checkState runs (lines 519-546).
Monitor ==
    /\ cb' = checkState(cb)
    /\ cb' # cb
    /\ hist' = Entered(hist, cb.state, cb'.state)
    /\ UNCHANGED <<jobQueue, poolMetrics, running, submits, execs, poolOthers>>

\* Time passes.
TimePasses ==
    /\ cb.since < LongAgo
    /\ cb' = [cb EXCEPT !.since = @ + TimeStep]
    /\ UNCHANGED <<jobQueue, poolMetrics, running, submits, execs, hist, poolOthers>>

\* dispatch receives a job from wp.jobQueue (line 721); a job the breaker
\* does not allow is counted as failed (lines 723-729), for any other
\* SelectWorker picks the next worker in turn (lines 598-600, 732).
DispatchTake ==
    /\ dpc = "idle"
    /\ jobQueue # <<>>
    /\ jobQueue' = Tail(jobQueue)
    /\ IF Allow(cb)
       THEN /\ djob' = Head(jobQueue)
            /\ dworker' = lastUsed
            /\ lastUsed' = (lastUsed + 1) % MaxWorkers
            /\ dpc' = "hand"
            /\ UNCHANGED poolMetrics
       ELSE /\ poolMetrics' = [poolMetrics EXCEPT !.FailedJobs = @ + 1]
            /\ UNCHANGED <<djob, dworker, lastUsed, dpc>>
    /\ UNCHANGED <<cb, running, submits, execs, hist, wkq, wkpc, registered, plumbOthers>>

\* dispatch's inner select (lines 740-750): the job goes on the worker's
\* JobQueue if that has room; if it has had none for a second, dispatch
\* goes on to put the job back.
DispatchHand ==
    /\ dpc = "hand"
    /\ IF wkq[dworker] = NoJob
       THEN /\ wkq' = [wkq EXCEPT ![dworker] = djob]
            /\ djob' = NoJob
            /\ dpc' = "idle"
       ELSE /\ dpc' = "putback"
            /\ UNCHANGED <<wkq, djob>>
    /\ UNCHANGED <<cb, jobQueue, poolMetrics, running, submits, execs, hist, dworker,
                   lastUsed, wkpc, registered, plumbOthers>>

\* dispatch puts the job back with a plain send on wp.jobQueue (line 749),
\* which waits for room.
DispatchPutBack ==
    /\ dpc = "putback"
    /\ Accepts(jobQueue)
    /\ jobQueue' = Append(jobQueue, djob)
    /\ djob' = NoJob
    /\ dpc' = "idle"
    /\ UNCHANGED <<cb, poolMetrics, running, submits, execs, hist, dworker, lastUsed,
                   wkq, wkpc, registered, plumbOthers>>

\* wp.workerPool has room for one more entry; it has capacity
\* config.MaxWorkers (line 454) and nothing receives from it.
RegisterRoom == registered < MaxWorkers

\* startWorker sends its JobQueue on wp.workerPool (line 763) and goes on to
\* wait for a job.
WorkerRegister(w) ==
    /\ wkpc[w] = "register"
    /\ RegisterRoom
    /\ registered' = registered + 1
    /\ wkpc' = [wkpc EXCEPT ![w] = "wait"]
    /\ UNCHANGED <<cb, jobQueue, poolMetrics, running, submits, execs, hist, dpc, djob,
                   dworker, lastUsed, wkq, plumbOthers>>

\* startWorker receives the job on its JobQueue and runs processJob (lines
\* 766-767), then starts its loop again.
WorkerRun(w, ok) ==
    /\ wkpc[w] = "wait"
    /\ wkq[w] # NoJob
    /\ processJob(wkq[w], ok)
    /\ wkq' = [wkq EXCEPT ![w] = NoJob]
    /\ wkpc' = [wkpc EXCEPT ![w] = "register"]
    /\ UNCHANGED <<running, submits, dpc, djob, dworker, lastUsed, registered, plumbOthers>>

\* The pool with its dispatcher and workers. Its workers record fewer than
\* FailureThreshold results in all, so the breaker stays Closed and monitor's
\* checkState finds nothing to change.
PoolNext ==
    \/ \E budget \in RetryBudgets : SubmitJob(budget)
    \/ DispatchTake
    \/ DispatchHand
    \/ DispatchPutBack
    \/ \E w \in Workers : WorkerRegister(w)
    \/ \E w \in Workers, ok \in BOOLEAN : WorkerRun(w, ok)

BreakerNext ==
    \/ \E budget \in RetryBudgets : SubmitJob(budget)
    \/ Dispatch
    \/ \E job \in running, ok \in BOOLEAN : ProcessJob(job, ok)
    \/ Monitor
    \/ TimePasses

(***************************************************************************)
(* Properties of the circuit breaker                                       *)
(***************************************************************************)
\* C22: while the breaker is Closed its failure counter is the number of
\* failures recorded in a row, and that number is below failure_threshold;
\* the breaker goes from Closed to Open in the step that records the
\* failure_threshold-th failure in a row, and in no other.
C22_OpensAtThreshold ==
    /\ [](cb.state = "Closed" =>
             cb.failureCount = hist.streak /\ hist.streak < FailureThreshold)
    /\ [][cb.state = "Closed" =>
             /\ cb'.state \in {"Closed", "Open"}
             /\ cb'.state = "Open" <=>
                   hist'.streak = hist.streak + 1 /\ hist'.streak = FailureThreshold]_vars

\* The breaker has opened, and before that a success interrupted a run of
\* failures without opening it.
C22_Witness ==
    /\ cb.state = "Open" /\ hist.streak = FailureThreshold
    /\ poolMetrics.SuccessJobs > 0
    /\ poolMetrics.FailedJobs > FailureThreshold

C24_HalfOpenAdmitsAtMost ==
    cb.state = "HalfOpen" => hist.hoAdmitted <= HalfOpenMaxCalls

\* C25: while the breaker is HalfOpen its success counter is the number of
\* successes recorded since it became HalfOpen; with half_open_max_calls of
\* them recorded, the next checkState closes the breaker and sets the failure
\* counter to zero; the breaker goes from HalfOpen to Closed in no step that
\* finds fewer, and arrives in Closed with a zero failure counter.
C25_ClosesAfterSuccesses ==
    /\ [](cb.state = "HalfOpen" =>
             /\ cb.successCount = hist.hoSuccesses
             /\ hist.hoSuccesses >= HalfOpenMaxCalls =>
                   ENABLED (Monitor /\ cb'.state = "Closed" /\ cb'.failureCount = 0))
    /\ [][(cb.state = "HalfOpen" /\ cb'.state = "Closed") =>
             hist.hoSuccesses >= HalfOpenMaxCalls /\ cb'.failureCount = 0]_vars

\* The breaker has opened, become HalfOpen, seen half_open_max_calls
\* successes and no failure, and closed.
C25_Witness ==
    /\ cb.state = "Closed" /\ cb.failureCount = 0
    /\ hist.hoSuccesses = HalfOpenMaxCalls /\ hist.hoFailures = 0

\* C26: a breaker that has recorded a failure since it became HalfOpen is no
\* longer HalfOpen.
C26_HalfOpenFailureOpens ==
    cb.state = "HalfOpen" => hist.hoFailures = 0

\* min(2^(k-1), 30): one second before the first retry, then 2, 4, 8, 16,
\* and 30 from the sixth on.
DocumentedBackoff(k) == IF Shl1(k - 1) > MaxBackoff THEN MaxBackoff ELSE Shl1(k - 1)

\* C28: the k-th retry of a job waits min(2^(k-1), 30) seconds.
C28_BackoffSchedule ==
    hist.lastRetry # NoRetry =>
       hist.lastRetry.waited = DocumentedBackoff(hist.lastRetry.k)

\* The changes of state the breaker is meant to make.
BreakerMoves ==
    {<<"Closed", "Open">>, <<"Open", "HalfOpen">>,
     <<"HalfOpen", "Closed">>, <<"HalfOpen", "Open">>}

\* C37: every step that changes the breaker's state takes it from Closed to
\* Open, from Open to HalfOpen, from HalfOpen to Closed or from HalfOpen to
\* Open, whichever of RecordSuccess, RecordFailure and checkState makes it.
C37_BreakerMoves ==
    [][cb'.state # cb.state => <<cb.state, cb'.state>> \in BreakerMoves]_vars

\* The breaker opened, became HalfOpen and, with failures and no success
\* recorded since, is Open again.
C37_Witness ==
    /\ cb.state = "Open"
    /\ hist.hoFailures > 0
    /\ hist.hoSuccesses = 0

(***************************************************************************)
(* Properties of the dispatcher and the workers                            *)
(***************************************************************************)
\* C27: no accepted job is left behind: a job that sits on a worker's
\* JobQueue has its worker waiting for it, or able to get back to waiting,
\* and a dispatcher that has to put a job back can do so.
C27_AcceptedJobsRun ==
    /\ \A w \in Workers :
          wkq[w] # NoJob => (wkpc[w] = "wait" \/ ENABLED WorkerRegister(w))
    /\ dpc = "putback" => ENABLED DispatchPutBack

\* C29: a failed execution of a job with retries left puts the job, with its
\* retry count raised by one, at the end of the queue; a failed execution of
\* a job with none left, and a successful one, put nothing on the queue.
C29_RetryReachesQueue ==
    [][\A w \in Workers :
          (wkpc[w] = "wait" /\ wkpc'[w] = "register") =>
             IF /\ poolMetrics'.FailedJobs > poolMetrics.FailedJobs
                /\ wkq[w].RetryCount < wkq[w].MaxRetries
             THEN jobQueue' = Append(jobQueue, Retried(wkq[w]))
             ELSE jobQueue' = jobQueue]_vars

\* The jobs that are in the pool and have not been run: on the main queue,
\* in the dispatcher's hand, or on a worker's JobQueue.
Waiting ==
    {jobQueue[i] : i \in DOMAIN jobQueue}
       \cup (IF djob = NoJob THEN {} ELSE {djob})
       \cup {wkq[w] : w \in {v \in Workers : wkq[v] # NoJob}}
WaitingCount ==
    Len(jobQueue) + (IF djob = NoJob THEN 0 ELSE 1)
       + Cardinality({w \in Workers : wkq[w] # NoJob})

\* C36: a dispatcher that has to put a job back can always do so, also with
\* the main queue full; and no job is lost or doubled on the way: every job
\* accepted and not yet run or rejected is waiting in exactly one place.
C36_RequeueNeverBlocks ==
    /\ dpc = "putback" => ENABLED DispatchPutBack
    /\ WaitingCount = Cardinality(Waiting)
    /\ WaitingCount =
          poolMetrics.TotalJobs - poolMetrics.SuccessJobs - poolMetrics.FailedJobs

(***************************************************************************)
(* WANDetectionService (database.go:116-517)                               *)
(*                                                                         *)
(* One DetectWANInterface call is one step: the service is called by one   *)
(* request at a time here.  What the router answers is an input of the     *)
(* call: whether the liveness ping succeeds, the interface each of the     *)
(* three detectors comes back with, whether the interface picked by name   *)
(* is still running when detectByHybrid looks it up again, and the stage   *)
(* at which the connection is lost, if it is.  Scores and confidences are  *)
(* in hundredths.  MethodCounts and the Traffic field are left out.        *)
(***************************************************************************)
wanOthers == <<routerVars, monVars, writerVars, hubVars, poolVars, healthVars, countVars>>

\* WAN_CACHE_DURATION, in minutes.
CacheDuration == 5
\* The votes of detectByHybrid and the method thresholds.
RouteScore == 95
TrafficScore == 70
PatternScore == 50
RouteFloor == 90
TrafficFloor == 70
MaxDetections == 3

WanNames == {"ether1", "ether2", "pppoe-telkom"}
NoPick == "nil"
Picks == WanNames \cup {NoPick}
NoConfig == "unbuilt"
DetectionMethods == {"auto", "manual"}
NoDecision == [absent |-> TRUE]
NoOutput == [absent |-> TRUE]
Ping == "/system/resource/print"
RoutePrint == "/ip/route/print"
InterfacePrint == "/interface/print"
\* The stages of a detection at which the connection can be lost.
Stages == <<"route", "traffic", "pattern", "recheck">>
Losses == {Stages[i] : i \in DOMAIN Stages} \cup {"never"}
\* The connection is lost at stage k or earlier.
LostBy(dies, k) == \E i \in 1..k : Stages[i] = dies

\* NewWANDetectionService leaves client nil and the cache empty; the model
\* starts before main has built the service from its configuration.
WanInit ==
    /\ wanConfig = NoConfig
    /\ wanClient = "nil"
    /\ wanCache = [Interface |-> NoDecision, age |-> 0]
    /\ wanMetrics = [CacheHits |-> 0, TotalDetections |-> 0, Failures |-> 0]
    /\ wanOut = NoOutput
    /\ wanCalls = 0

NewWANDetectionService(method) ==
    /\ wanConfig = NoConfig
    /\ wanConfig' = method
    /\ UNCHANGED <<wanClient, wanCache, wanMetrics, wanOut, wanCalls, wanOthers>>

SetRouterClient ==
    /\ wanConfig # NoConfig
    /\ wanClient = "nil"
    /\ wanClient' = "session"
    /\ UNCHANGED <<wanConfig, wanCache, wanMetrics, wanOut, wanCalls, wanOthers>>

\* ispNamePatterns: the ISPs whose pattern matches the name.
IspMatches(name) == IF name = "pppoe-telkom" THEN {"telkom"} ELSE {}
\* detectISPName ranges over the map and returns the first match it meets.
detectISPName(name) == IF IspMatches(name) = {} THEN {"unknown"} ELSE IspMatches(name)

\* The decision DetectWANInterface returns when ensureConnected fails
\* (lines 221-227) and when detection finds nothing (lines 271-277).
ErrorDecision ==
    [Name |-> "none", Method |-> "error", Confidence |-> 0, ISPName |-> "error"]
NotFoundDecision ==
    [Name |-> "none", Method |-> "not_found", Confidence |-> 0, ISPName |-> "unknown"]

\* detectByHybrid, lines 338-379: the score of a candidate, the candidates
\* that have one, the best of them, and the method the score stands for.
\* Two candidates never score the same: their votes are different ones.
HybridScoreUnchecked(n, routeWAN, trafficWAN, patternWAN, up) ==
    (IF routeWAN = n THEN RouteScore ELSE 0)
    + (IF trafficWAN = n THEN TrafficScore ELSE 0)
    + (IF patternWAN = n THEN PatternScore ELSE 0)
HybridScore(n, routeWAN, trafficWAN, patternWAN, up) ==
    (IF routeWAN = n THEN RouteScore ELSE 0)
    + (IF trafficWAN = n THEN TrafficScore ELSE 0)
    + (IF patternWAN = n /\ up THEN PatternScore ELSE 0)
HybridScored(routeWAN, trafficWAN, patternWAN, up) ==
    {n \in WanNames : HybridScore(n, routeWAN, trafficWAN, patternWAN, up) > 0}
HybridMethod(maxScore) ==
    IF maxScore >= RouteFloor THEN "default_route"
    ELSE IF maxScore >= TrafficFloor THEN "traffic_analysis"
    ELSE "name_pattern"
detectByHybrid(routeWAN, trafficWAN, patternWAN, up) ==
    LET scored == HybridScored(routeWAN, trafficWAN, patternWAN, up)
        sc(n) == HybridScore(n, routeWAN, trafficWAN, patternWAN, up)
    IN  IF scored = {}
        THEN [bestWAN |-> NoPick, method |-> HybridMethod(0), maxScore |-> 0]
        ELSE LET best == CHOOSE n \in scored : \A m \in scored : sc(m) <= sc(n)
             IN  [bestWAN |-> best, method |-> HybridMethod(sc(best)),
                  maxScore |-> sc(best)]
\* The default branch of the switch, lines 249-255.
detectByRouteOnly(routeWAN) ==
    [bestWAN |-> routeWAN, method |-> "default_route", maxScore |-> RouteScore]

\* What the detectors come back with when the connection is lost at a stage:
\* a failed command sets s.client to nil and every later detector returns nil.
Detected(method, route, traffic, pattern, up, dies) ==
    LET routeWAN == IF LostBy(dies, 1) THEN NoPick ELSE route
        trafficWAN == IF LostBy(dies, 2) THEN NoPick ELSE traffic
        patternWAN == IF LostBy(dies, 3) THEN NoPick ELSE pattern
    IN  IF method \in {"auto", "hybrid"}
        THEN detectByHybrid(routeWAN, trafficWAN, patternWAN, up /\ dies # "recheck")
        ELSE detectByRouteOnly(routeWAN)
\* The same, as the locals of the call: routeWAN, trafficWAN, patternWAN and
\* whether the second look at patternWAN found it running.
NoLocals == [absent |-> TRUE]
Locals(method, route, traffic, pattern, up, dies) ==
    LET hybrid == method \in {"auto", "hybrid"}
        patternWAN == IF LostBy(dies, 3) \/ ~hybrid THEN NoPick ELSE pattern
    IN  [routeWAN |-> IF LostBy(dies, 1) THEN NoPick ELSE route,
         trafficWAN |-> IF LostBy(dies, 2) \/ ~hybrid THEN NoPick ELSE traffic,
         patternWAN |-> patternWAN,
         up |-> patternWAN # NoPick /\ up /\ dies # "recheck"]
\* Whether the detection leaves the session in place.
SessionKept(method, pattern, dies) ==
    IF method \in {"auto", "hybrid"}
    THEN dies = "never" \/ (dies = "recheck" /\ pattern = NoPick)
    ELSE dies # "route"
\* The commands a detection sends after the ping.
DetectionCommands(method, dies) ==
    IF method \in {"auto", "hybrid"} /\ dies # "route"
    THEN {RoutePrint, InterfacePrint}
    ELSE {RoutePrint}

\* DetectWANInterface, lines 217-278, with ensureConnected (191-214).
DetectWANInterface(ping, route, traffic, pattern, up, dies) ==
    /\ wanConfig # NoConfig
    /\ wanCalls < MaxDetections
    /\ wanCalls' = wanCalls + 1
    /\ IF wanClient = "nil"
       THEN /\ wanOut' = [decision |-> ErrorDecision, err |-> FALSE, cmds |-> {},
                          event |-> FALSE, locals |-> NoLocals]
            /\ UNCHANGED <<wanClient, wanCache, wanMetrics>>
       ELSE IF ~ping
       THEN /\ wanClient' = "nil"
            /\ wanOut' = [decision |-> ErrorDecision, err |-> FALSE, cmds |-> {Ping},
                          event |-> FALSE, locals |-> NoLocals]
            /\ UNCHANGED <<wanCache, wanMetrics>>
       ELSE IF wanCache.Interface # NoDecision /\ wanCache.age < CacheDuration
       THEN /\ wanMetrics' = [wanMetrics EXCEPT !.CacheHits = @ + 1]
            /\ wanOut' = [decision |-> wanCache.Interface, err |-> FALSE,
                          cmds |-> {Ping}, event |-> FALSE, locals |-> NoLocals]
            /\ UNCHANGED <<wanClient, wanCache>>
       ELSE LET d == Detected(wanConfig, route, traffic, pattern, up, dies)
                sent == {Ping} \cup DetectionCommands(wanConfig, dies)
                locals == Locals(wanConfig, route, traffic, pattern, up, dies)
            IN  /\ wanClient' = IF SessionKept(wanConfig, pattern, dies)
                                THEN "session" ELSE "nil"
                /\ IF d.bestWAN # NoPick
                   THEN \E isp \in detectISPName(d.bestWAN) :
                          LET bestWAN == [Name |-> d.bestWAN, Method |-> d.method,
                                          Confidence |-> d.maxScore, ISPName |-> isp]
                          IN  /\ wanCache' = [Interface |-> bestWAN, age |-> 0]
                              /\ wanMetrics' =
                                    [wanMetrics EXCEPT !.TotalDetections = @ + 1]
                              /\ wanOut' = [decision |-> bestWAN, err |-> FALSE,
                                            cmds |-> sent, event |-> TRUE,
                                            locals |-> locals]
                   ELSE /\ wanMetrics' = [wanMetrics EXCEPT !.Failures = @ + 1]
                        /\ wanOut' = [decision |-> NotFoundDecision, err |-> FALSE,
                                      cmds |-> sent, event |-> FALSE,
                                      locals |-> locals]
                        /\ UNCHANGED wanCache
    /\ UNCHANGED <<wanConfig, wanOthers>>

\* A minute passes: the cached decision gets older.  Ages from CacheDuration
\* on are all the same to line 231.
WanTimePasses ==
    /\ wanCache.Interface # NoDecision
    /\ wanCache.age < CacheDuration
    /\ wanCache' = [wanCache EXCEPT !.age = @ + 1]
    /\ UNCHANGED <<wanConfig, wanClient, wanMetrics, wanOut, wanCalls, wanOthers>>

\* The router's answers to one call, each answer the call never gets to see
\* left at nil / FALSE: nothing after a failed ping, no pick from a detector
\* that runs after the connection is lost, no second look at a pick that
\* is nil.
WanInputs ==
    {in \in [ping : BOOLEAN, route : Picks, traffic : Picks, pattern : Picks,
             up : BOOLEAN, dies : Losses] :
        /\ ~in.ping => in.dies = "never" /\ in.route = NoPick
        /\ (~in.ping \/ LostBy(in.dies, 1)) => in.route = NoPick
        /\ (~in.ping \/ LostBy(in.dies, 2)) => in.traffic = NoPick
        /\ (~in.ping \/ LostBy(in.dies, 3)) => in.pattern = NoPick
        /\ in.pattern = NoPick => ~in.up /\ in.dies # "recheck"
        /\ in.dies = "recheck" => ~in.up}

WanNext ==
    \/ \E method \in DetectionMethods : NewWANDetectionService(method)
    \/ SetRouterClient
    \/ \E in \in WanInputs :
          DetectWANInterface(in.ping, in.route, in.traffic, in.pattern, in.up, in.dies)
    \/ WanTimePasses

(***************************************************************************)
(* Properties of the WAN detector                                          *)
(***************************************************************************)
\* The call just made found no session, or its liveness ping failed.
NoSessionOrPingFailed ==
    wanClient = "nil" \/ (wanClient' = "nil" /\ wanOut'.cmds = {Ping})
\* The call just made ran the detectors and came back without a candidate.
RanAndFoundNothing ==
    /\ RoutePrint \in wanOut'.cmds
    /\ wanMetrics'.Failures > wanMetrics.Failures

\* C30: a call that finds no session, or whose ping fails, returns without an
\* error the decision none / error / 0.0 / unknown; a call whose detection
\* finds no candidate returns none / not_found / 0.0 / unknown.
C30_GracefulFailure ==
    [][wanCalls' # wanCalls =>
         /\ ~wanOut'.err
         /\ NoSessionOrPingFailed =>
               wanOut'.decision = [Name |-> "none", Method |-> "error",
                                   Confidence |-> 0, ISPName |-> "unknown"]
         /\ RanAndFoundNothing =>
               wanOut'.decision = [Name |-> "none", Method |-> "not_found",
                                   Confidence |-> 0, ISPName |-> "unknown"]]_vars

\* The cache holds a decision younger than the TTL.
FreshCache == wanCache.Interface # NoDecision /\ wanCache.age < CacheDuration

\* C31: a call made while a cached decision is younger than the TTL returns
\* that decision, sends the router nothing and adds one to the cache-hit
\* counter; no other call counts a cache hit; a call that returns a failure
\* decision leaves the cache as it was.
C31_CacheServesFreshDecision ==
    [][wanCalls' # wanCalls =>
         /\ FreshCache =>
               /\ wanOut'.decision = wanCache.Interface
               /\ wanOut'.cmds = {}
               /\ wanMetrics'.CacheHits = wanMetrics.CacheHits + 1
         /\ ~FreshCache => wanMetrics'.CacheHits = wanMetrics.CacheHits
         /\ wanOut'.decision.Name = "none" => wanCache' = wanCache]_vars

\* The last call ran detectByHybrid, whose route-based and traffic-based
\* detectors picked two different interfaces.
RouteAndTrafficDiffer ==
    /\ wanOut # NoOutput
    /\ wanOut.locals # NoLocals
    /\ wanConfig \in {"auto", "hybrid"}
    /\ wanOut.locals.routeWAN # NoPick
    /\ wanOut.locals.trafficWAN # NoPick
    /\ wanOut.locals.routeWAN # wanOut.locals.trafficWAN
\* The pattern-based detector picked the traffic-based pick, and the second
\* look found it running.
PatternBacksTraffic ==
    wanOut.locals.patternWAN = wanOut.locals.trafficWAN /\ wanOut.locals.up

\* C32, as claimed: when route-based detection picks A and traffic-based
\* detection another interface, the decision is A with method route,
\* whatever pattern-based detection picks.
C32_RouteBeatsTraffic ==
    RouteAndTrafficDiffer =>
       /\ wanOut.decision.Name = wanOut.locals.routeWAN
       /\ wanOut.decision.Method = "default_route"

\* C32, amended: the decision is A with method route unless pattern-based
\* detection picks the traffic-based pick B and B is still running at the
\* second look; then it is B, with method route.
C32_RouteBeatsTrafficUnlessBacked ==
    RouteAndTrafficDiffer =>
       /\ wanOut.decision.Method = "default_route"
       /\ wanOut.decision.Name =
             IF PatternBacksTraffic THEN wanOut.locals.trafficWAN
             ELSE wanOut.locals.routeWAN

\* Route-based detection picked one interface and the other two detectors
\* another, which was not running at the second look: the decision is the
\* route-based pick.
C32_Witness ==
    /\ RouteAndTrafficDiffer
    /\ wanOut.locals.patternWAN = wanOut.locals.trafficWAN
    /\ ~wanOut.locals.up
    /\ wanOut.decision.Name = wanOut.locals.routeWAN

\* The last call ran detectByHybrid, whose route-based and traffic-based
\* detectors picked the same interface.
RouteAndTrafficAgree ==
    /\ wanOut # NoOutput
    /\ wanOut.locals # NoLocals
    /\ wanConfig \in {"auto", "hybrid"}
    /\ wanOut.locals.routeWAN # NoPick
    /\ wanOut.locals.routeWAN = wanOut.locals.trafficWAN

\* C33: the confidence of every decision returned lies between 0 and 1 (100
\* hundredths); when route-based and traffic-based detection agree, the
\* decision is their pick with method route and confidence 0.95.
C33_ConfidenceInUnitRange ==
    /\ wanOut # NoOutput => wanOut.decision.Confidence \in 0..100
    /\ RouteAndTrafficAgree =>
          /\ wanOut.decision.Name = wanOut.locals.routeWAN
          /\ wanOut.decision.Method = "default_route"
          /\ wanOut.decision.Confidence = RouteScore

\* The last call had a session and lost it: its ping, or a command of its
\* detection, failed.
SessionInvalidated ==
    wanClient = "nil" /\ wanOut # NoOutput /\ wanOut.cmds # {}
\* A call that does not end in the error decision.
RealDecisionCall ==
    \E in \in WanInputs :
       /\ DetectWANInterface(in.ping, in.route, in.traffic, in.pattern, in.up, in.dies)
       /\ wanOut'.decision.Method # "error"

\* C34: after a failure has invalidated the session, the next call can, with
\* the router answering, come back with something else than the error
\* decision, without SetRouterClient being called first.
C34_LazyReconnect ==
    (SessionInvalidated /\ wanCalls < MaxDetections) => ENABLED RealDecisionCall

(***************************************************************************)
(* MetricsService (metrics.go:10-222)                                      *)
(*                                                                         *)
(* The service holds one metrics object per component.  Those it is built  *)
(* with are its own and nobody counts in them; SetWANDetectionMetrics and  *)
(* SetWorkerPoolMetrics put a component's object in their place, in which  *)
(* the component goes on counting.  Its WebSocketMetrics is always its own *)
(* (there is no setter), so messages_sent and messages_dropped are zero.   *)
(* ErrorRate, a float64 percentage, is kept as the fraction it was         *)
(* computed from: 100 * num / den.  Jobs are submitted JobBurst at a time. *)
(***************************************************************************)
healthOthers == <<routerVars, monVars, writerVars, hubVars, poolVars, wanVars, countVars>>

MaxWanCount == 1
MaxFailedJobs == 2
MaxJobBursts == 6
JobBurst == 20
\* The thresholds of lines 140 and 142, in percent.
HealthyBelow == 1
DegradedBelow == 5

NoRead == [absent |-> TRUE]
FreshWanMetrics(wired) == [wired |-> wired, Failures |-> 0, CacheHits |-> 0]
FreshWorkerMetrics(wired) == [wired |-> wired, FailedJobs |-> 0, TotalJobs |-> 0]

\* NewMetricsService, lines 40-56; ErrorRate is the zero value.
HealthInit ==
    /\ msWan = FreshWanMetrics(FALSE)
    /\ msPool = FreshWorkerMetrics(FALSE)
    /\ health = [Status |-> "unknown", ErrorRate |-> [num |-> 0, den |-> 1]]
    /\ healthRead = NoRead

SetWANDetectionMetrics ==
    /\ msWan' = FreshWanMetrics(TRUE)
    /\ UNCHANGED <<msPool, health, healthRead, healthOthers>>

SetWorkerPoolMetrics ==
    /\ msPool' = FreshWorkerMetrics(TRUE)
    /\ UNCHANGED <<msWan, health, healthRead, healthOthers>>

\* The components count in the objects the service holds.
DetectionFailed ==
    /\ msWan.wired /\ msWan.Failures < MaxWanCount
    /\ msWan' = [msWan EXCEPT !.Failures = @ + 1]
    /\ UNCHANGED <<msPool, health, healthRead, healthOthers>>
CacheHit ==
    /\ msWan.wired /\ msWan.CacheHits < MaxWanCount
    /\ msWan' = [msWan EXCEPT !.CacheHits = @ + 1]
    /\ UNCHANGED <<msPool, health, healthRead, healthOthers>>
JobFailed ==
    /\ msPool.wired /\ msPool.FailedJobs < MaxFailedJobs
    /\ msPool' = [msPool EXCEPT !.FailedJobs = @ + 1]
    /\ UNCHANGED <<msWan, health, healthRead, healthOthers>>
JobsSubmitted ==
    /\ msPool.wired /\ msPool.TotalJobs < MaxJobBursts * JobBurst
    /\ msPool' = [msPool EXCEPT !.TotalJobs = @ + JobBurst]
    /\ UNCHANGED <<msWan, health, healthRead, healthOthers>>

\* rate < k percent, for rate = 100 * num / den.
RateBelow(rate, k) == 100 * rate.num < k * rate.den
\* Lines 140-146.
StatusOf(rate) ==
    IF RateBelow(rate, HealthyBelow) THEN "healthy"
    ELSE IF RateBelow(rate, DegradedBelow) THEN "degraded"
    ELSE "critical"

\* updateSystemHealth, lines 98-157, as run by updateSystemMetrics,
\* RecordError and RecordSuccess under ms.mu.
updateSystemHealth ==
    LET totalErrors == 0 + msWan.Failures + msPool.FailedJobs
        totalRequests == 0 + msWan.CacheHits + msPool.TotalJobs
        ErrorRate == IF totalRequests > 0
                     THEN [num |-> totalErrors, den |-> totalRequests]
                     ELSE health.ErrorRate
    IN  /\ health' = [Status |-> StatusOf(ErrorRate), ErrorRate |-> ErrorRate]
        /\ healthRead' = [totalErrors |-> totalErrors, totalRequests |-> totalRequests]
        /\ UNCHANGED <<msWan, msPool, healthOthers>>

HealthNext ==
    \/ SetWANDetectionMetrics
    \/ SetWorkerPoolMetrics
    \/ DetectionFailed
    \/ CacheHit
    \/ JobFailed
    \/ JobsSubmitted
    \/ updateSystemHealth

(***************************************************************************)
(* Properties of the health status                                         *)
(***************************************************************************)
\* The status the counters of one update stand for: the error rate is
\* 100 * errors / requests, and zero while nothing was requested.
StatusFor(read) ==
    IF read.totalRequests = 0 THEN "healthy"
    ELSE IF 100 * read.totalErrors < HealthyBelow * read.totalRequests THEN "healthy"
    ELSE IF 100 * read.totalErrors < DegradedBelow * read.totalRequests THEN "degraded"
    ELSE "critical"

\* C35: after an update the status is the one the counters read at that
\* update stand for: healthy below 1 percent, degraded from 1 to below 5,
\* critical from 5 on; counters of an earlier update play no part.
C35_StatusFromCurrentCounters ==
    healthRead # NoRead => health.Status = StatusFor(healthRead)

(***************************************************************************)
(* WorkerPool counters, one step per statement (logging.go:588-840)        *)
(*                                                                         *)
(* SubmitJob, dispatch and processJob run in different goroutines and each *)
(* counts after its channel operation, under wp.metrics.mu taken for the   *)
(* one increment only.  Here every channel operation and every counter     *)
(* update is a step of its own.  Jobs carry MaxRetries = 0, and fewer jobs *)
(* fail than the breaker's FailureThreshold, so Allow() is true.           *)
(***************************************************************************)
\* SubmitJob calls in one behaviour.
MaxJobs == 4

\* The strategies of lines 441-446 that read no clock and no statistics.
Strategies == {"RoundRobin", "LeastConnections"}
NoStrategy == "unbuilt"

FreshCounters == [ActiveJobs |-> 0, TotalJobs |-> 0, SuccessJobs |-> 0, FailedJobs |-> 0]

CountInit ==
    /\ lbStrategy = NoStrategy
    /\ cQueue = 0
    /\ cSub = "idle"
    /\ cDpc = "idle"
    /\ cWorker = 0
    /\ cLast = 0
    /\ cWq = [w \in Workers |-> 0]
    /\ cWpc = [w \in Workers |-> "register"]
    /\ cReg = 0
    /\ wActive = [w \in Workers |-> 0]
    /\ cMetrics = FreshCounters
    /\ cHanded = [w \in Workers |-> 0]
    /\ cJobs = 0

countOthers == <<routerVars, monVars, writerVars, hubVars, poolVars, wanVars, healthVars>>

\* NewLoadBalancer(strategy); NewWorkerPool passes RoundRobin (line 464).
NewLoadBalancer(strategy) ==
    /\ lbStrategy = NoStrategy
    /\ lbStrategy' = strategy
    /\ UNCHANGED <<cQueue, cSub, cDpc, cWorker, cLast, cWq, cWpc, cReg, wActive, cMetrics,
                   cHanded, cJobs>>
    /\ UNCHANGED countOthers

\* The loop of selectLeastConnections from worker i on: a worker replaces the
\* selected one only when its ActiveJobs is strictly smaller.
RECURSIVE ScanLeast(_, _, _, _)
ScanLeast(active, i, minConnections, selected) ==
    IF i = MaxWorkers THEN selected
    ELSE IF active[i] < minConnections
         THEN ScanLeast(active, i + 1, active[i], i)
         ELSE ScanLeast(active, i + 1, minConnections, selected)

\* selectLeastConnections: worker 0 is below the initial maximum, so the
\* scan goes on from worker 1 with worker 0 selected.
selectLeastConnections(active) == ScanLeast(active, 1, active[0], 0)

\* SelectWorker, by strategy, over worker.ActiveJobs and lb.lastUsed.
SelectWorker(strategy, active, last) ==
    IF strategy = "LeastConnections" THEN selectLeastConnections(active) ELSE last

\* SubmitJob, line 678: the job goes on wp.jobQueue.
SubmitSend ==
    /\ lbStrategy # NoStrategy
    /\ cSub = "idle"
    /\ cJobs < MaxJobs
    /\ cQueue < QueueCap
    /\ cQueue' = cQueue + 1
    /\ cSub' = "count"
    /\ cJobs' = cJobs + 1
    /\ UNCHANGED <<lbStrategy, cDpc, cWorker, cLast, cWq, cWpc, cReg, wActive, cMetrics,
                   cHanded>>
    /\ UNCHANGED countOthers

\* SubmitJob, lines 679-682: TotalJobs++ once the send has happened.
SubmitCount ==
    /\ cSub = "count"
    /\ cMetrics' = [cMetrics EXCEPT !.TotalJobs = @ + 1]
    /\ cSub' = "idle"
    /\ UNCHANGED <<lbStrategy, cQueue, cDpc, cWorker, cLast, cWq, cWpc, cReg, wActive,
                   cHanded, cJobs>>
    /\ UNCHANGED countOthers

\* SubmitJob, lines 683-684: the queue stayed full for five seconds.
SubmitRefused ==
    /\ lbStrategy # NoStrategy
    /\ cSub = "idle"
    /\ cJobs < MaxJobs
    /\ cQueue = QueueCap
    /\ cJobs' = cJobs + 1
    /\ UNCHANGED <<lbStrategy, cQueue, cSub, cDpc, cWorker, cLast, cWq, cWpc, cReg, wActive,
                   cMetrics, cHanded>>
    /\ UNCHANGED countOthers

\* dispatch, lines 721-732: receive a job and select its worker.
TakeAndSelect ==
    /\ cDpc = "idle"
    /\ cQueue > 0
    /\ cQueue' = cQueue - 1
    /\ cWorker' = SelectWorker(lbStrategy, wActive, cLast)
    /\ cLast' = IF lbStrategy = "RoundRobin" THEN (cLast + 1) % MaxWorkers ELSE cLast
    /\ cDpc' = "hand"
    /\ UNCHANGED <<lbStrategy, cSub, cWq, cWpc, cReg, wActive, cMetrics, cHanded, cJobs>>
    /\ UNCHANGED countOthers

\* dispatch, lines 741-742: the send on worker.JobQueue (one slot), and
\* worker.ActiveJobs++, a field only this goroutine touches.
HandSend ==
    /\ cDpc = "hand"
    /\ cWq[cWorker] = 0
    /\ cWq' = [cWq EXCEPT ![cWorker] = 1]
    /\ wActive' = [wActive EXCEPT ![cWorker] = @ + 1]
    /\ cHanded' = [cHanded EXCEPT ![cWorker] = @ + 1]
    /\ cDpc' = "count"
    /\ UNCHANGED <<lbStrategy, cQueue, cSub, cWorker, cLast, cWpc, cReg, cMetrics, cJobs>>
    /\ UNCHANGED countOthers

\* dispatch, lines 743-746: wp.metrics.ActiveJobs++ once the send has happened.
HandCount ==
    /\ cDpc = "count"
    /\ cMetrics' = [cMetrics EXCEPT !.ActiveJobs = @ + 1]
    /\ cDpc' = "idle"
    /\ UNCHANGED <<lbStrategy, cQueue, cSub, cWorker, cLast, cWq, cWpc, cReg, wActive,
                   cHanded, cJobs>>
    /\ UNCHANGED countOthers

\* dispatch, line 747: the worker's slot stayed taken for a second.
HandTimeout ==
    /\ cDpc = "hand"
    /\ cWq[cWorker] = 1
    /\ cDpc' = "putback"
    /\ UNCHANGED <<lbStrategy, cQueue, cSub, cWorker, cLast, cWq, cWpc, cReg, wActive,
                   cMetrics, cHanded, cJobs>>
    /\ UNCHANGED countOthers

\* dispatch, line 749: the job goes back on wp.jobQueue, a send without timeout.
PutBack ==
    /\ cDpc = "putback"
    /\ cQueue < QueueCap
    /\ cQueue' = cQueue + 1
    /\ cDpc' = "idle"
    /\ UNCHANGED <<lbStrategy, cSub, cWorker, cLast, cWq, cWpc, cReg, wActive, cMetrics,
                   cHanded, cJobs>>
    /\ UNCHANGED countOthers

\* startWorker, line 764: the send on wp.workerPool, which has MaxWorkers
\* slots and no receiver.
Register(w) ==
    /\ lbStrategy # NoStrategy
    /\ cWpc[w] = "register"
    /\ cReg < MaxWorkers
    /\ cReg' = cReg + 1
    /\ cWpc' = [cWpc EXCEPT ![w] = "wait"]
    /\ UNCHANGED <<lbStrategy, cQueue, cSub, cDpc, cWorker, cLast, cWq, wActive, cMetrics,
                   cHanded, cJobs>>
    /\ UNCHANGED countOthers

\* startWorker, lines 766-768: receive the job and enter processJob.
Receive(w) ==
    /\ cWpc[w] = "wait"
    /\ cWq[w] = 1
    /\ cWq' = [cWq EXCEPT ![w] = 0]
    /\ cWpc' = [cWpc EXCEPT ![w] = "run"]
    /\ UNCHANGED <<lbStrategy, cQueue, cSub, cDpc, cWorker, cLast, cReg, wActive, cMetrics,
                   cHanded, cJobs>>
    /\ UNCHANGED countOthers

\* processJob, lines 808-838: the job's outcome is counted.
CountOutcome(w, ok) ==
    /\ cWpc[w] = "run"
    /\ cMetrics' = IF ok THEN [cMetrics EXCEPT !.SuccessJobs = @ + 1]
                         ELSE [cMetrics EXCEPT !.FailedJobs = @ + 1]
    /\ cWpc' = [cWpc EXCEPT ![w] = "defer"]
    /\ UNCHANGED <<lbStrategy, cQueue, cSub, cDpc, cWorker, cLast, cWq, cReg, wActive,
                   cHanded, cJobs>>
    /\ UNCHANGED countOthers

\* processJob, lines 786-794: the deferred function, wp.metrics.ActiveJobs--;
\* worker.ActiveJobs is not written.  The job has finished.
Deferred(w) ==
    /\ cWpc[w] = "defer"
    /\ cMetrics' = [cMetrics EXCEPT !.ActiveJobs = @ - 1]
    /\ cHanded' = [cHanded EXCEPT ![w] = @ - 1]
    /\ cWpc' = [cWpc EXCEPT ![w] = "register"]
    /\ UNCHANGED <<lbStrategy, cQueue, cSub, cDpc, cWorker, cLast, cWq, cReg, wActive,
                   cJobs>>
    /\ UNCHANGED countOthers

CountNext ==
    \/ \E strategy \in Strategies : NewLoadBalancer(strategy)
    \/ SubmitSend
    \/ SubmitCount
    \/ SubmitRefused
    \/ TakeAndSelect
    \/ HandSend
    \/ HandCount
    \/ HandTimeout
    \/ PutBack
    \/ \E w \in Workers : Register(w)
    \/ \E w \in Workers : Receive(w)
    \/ \E w \in Workers, ok \in BOOLEAN : CountOutcome(w, ok)
    \/ \E w \in Workers : Deferred(w)

(***************************************************************************)
(* Properties of the counters                                              *)
(***************************************************************************)
\* Jobs sent to a worker whose processJob has not returned.
RECURSIVE HandedUpTo(_)
HandedUpTo(i) == IF i = 0 THEN 0 ELSE cHanded[i - 1] + HandedUpTo(i - 1)

HandedUnfinished == HandedUpTo(MaxWorkers)

\* The dispatcher stands between its send and its ActiveJobs++.
HandCountPending == IF cDpc = "count" THEN 1 ELSE 0

\* C38: under the least-active strategy the selected worker has the fewest
\* handed and unfinished jobs of all workers, and in every step a worker's
\* active-job count moves as its handed and unfinished jobs do: up by one
\* at the hand-over, down by one when the job finishes.
C38_LeastActivePicksIdlest ==
    [][/\ (lbStrategy = "LeastConnections" /\ cDpc = "idle" /\ cDpc' = "hand")
            => \A v \in Workers : cHanded[cWorker'] <= cHanded[v]
       /\ \A w \in Workers : wActive'[w] - wActive[w] = cHanded'[w] - cHanded[w]]_vars

\* C40: in every reachable state the pool's ActiveJobs is not negative, it
\* is the number of handed and unfinished jobs (the one the dispatcher is
\* about to count included), and SuccessJobs + FailedJobs is at most
\* TotalJobs.
C40_CountersConsistent ==
    /\ cMetrics.ActiveJobs >= 0
    /\ cMetrics.ActiveJobs + HandCountPending = HandedUnfinished
    /\ cMetrics.SuccessJobs + cMetrics.FailedJobs <= cMetrics.TotalJobs

(***************************************************************************)
(* Specifications                                                          *)
(***************************************************************************)
\* The state after NewMikroTikService and NewMonitoringService, on an empty
\* database.
Init == RouterInit /\ MonInit /\ WriterInit /\ HubInit /\ PoolInit /\ WanInit /\ HealthInit
        /\ CountInit

SpecRouter == Init /\ [][RouterNext]_vars
\* The callers' goroutines keep running; a waiter of a sync.Mutex that is
\* released again and again gets it (starvation mode).
FairRouter ==
    SpecRouter /\ \A c \in Callers : SF_vars(Lock(c)) /\ WF_vars(Step(c))
SpecMon == Init /\ [][MonNext]_vars
SpecWriters == Init /\ [][WritersNext]_vars
SpecHub == Init /\ [][HubNext]_vars
SpecSessions == Init /\ [][SessionsNext]_vars
SpecBreaker == Init /\ [][BreakerNext]_vars
SpecPool == Init /\ [][PoolNext]_vars
SpecWan == Init /\ [][WanNext]_vars
SpecHealth == Init /\ [][HealthNext]_vars
SpecCounters == Init /\ [][CountNext]_vars

====
